---------------------------- MODULE Spec2Model ----------------------------
(***************************************************************************)
(* A model of `mark`, the terminal markdown reader/editor (src/src/app.rs). *)
(*                                                                         *)
(* The App struct is one record, `app`; every method of App is an operator *)
(* from an App record (and its arguments) to the App record it leaves      *)
(* behind, written in the order of the method's statements.  The event     *)
(* loop of run_app is the state machine: it draws, polls one key, drains   *)
(* the watcher's queue and handles a pending reload.  The file on disk,    *)
(* the watcher's queue and the clock are the environment.                  *)
(*                                                                         *)
(* Text is a sequence of characters (one-character strings); offsets are   *)
(* 0-based as in the source, so the character at offset i is r[i + 1].     *)
(* Option<T> is a sequence of length 0 (None) or 1 (Some).                 *)
(***************************************************************************)
EXTENDS Integers, Sequences, FiniteSets, TLC

(***************************************************************************)
(* Bounds of the model.                                                    *)
(***************************************************************************)
\* longest buffer (in chars) the model lets an edit produce
MaxLen == 4
\* longest initial file (in chars)
MaxFileLen == 3
\* keys handled in one behaviour
MaxKeys == 3
\* keys handled in a session of commands and their repetition
MaxRepeatKeys == 4
\* keys handled in a session with calls of undo and redo
MaxUndoKeys == 6
\* keys handled in a scripted session (the longest script has 8 keys)
MaxScriptKeys == 8
\* keys handled in a session that edits, undoes, saves, discards and quits
MaxQuitKeys == 6
\* largest pending count the digit keys may build
MaxCount == 12
\* clock readings: the clock runs from 0 to MaxTicks * TickMs
MaxTicks == 6
\* watcher events that may wait in the channel at once
MaxQueue == 1
\* longest file (in chars) of the behaviours with a watcher: the initial
\* file and what other programs write
MaxWriteLen == 1
\* height of the editor pane in lines (layout.editor_height)
EditorHeight == 2
\* longest line (in chars) given to find_matches and longest span given to
\* wrap_line
MaxLineLen == 3
\* widest line wrap_line is asked for
MaxWidth == 3
\* most rows of a table
MaxRows == 3
\* keys handled in a session of the preview
MaxPreviewKeys == 3
\* length (in chars) of the long line given to the cursor mapping
LongLineLen == 1010
\* keys handled in a session with the theme picker
MaxThemeKeys == 5
\* width of the rendered text with the preview pane open, and without it
\* (layout.preview_width, layout.editor_width)
PreviewWidth == 4
FullWidth == 10
\* paragraphs of the long documents (two rendered lines each: more than
\* the search window of the cursor mapping)
LongDocBlocks == 102

(***************************************************************************)
(* Program constants.                                                      *)
(***************************************************************************)
\* tick_rate: the poll timeout, the grain of the model's clock
TickMs == 50
\* request_reload: the debounce delay
DebounceMs == 150
\* save_buffer: the reload-suppression window after a save
SuppressMs == 300

NL == "\n"
None == <<>>
Some(x) == <<x>>
unwrap_or(o, d) == IF o = <<>> THEN d ELSE o[1]
Min(a, b) == IF a < b THEN a ELSE b
Max(a, b) == IF a > b THEN a ELSE b
\* usize::saturating_sub
saturating_sub(a, b) == IF a > b THEN a - b ELSE 0

\* a status message: "text".to_string(), and format!("text {arg}") with the
\* argument it is given
to_string(msg) == <<msg, <<>>>>
format(msg, arg) == <<msg, arg>>
\* the text of an I/O or parse error
err == <<"e", "r", "r">>

(***************************************************************************)
(* Keys (crossterm KeyEvent): a code, the character of a Char code, and    *)
(* the CONTROL modifier.                                                   *)
(***************************************************************************)
Ch(c) == [code |-> "Char", c |-> c, ctrl |-> FALSE]
CtrlCh(c) == [code |-> "Char", c |-> c, ctrl |-> TRUE]
Sp(name) == [code |-> name, c |-> "", ctrl |-> FALSE]
NoKey == [code |-> "None", c |-> "", ctrl |-> FALSE]
IsChar(key, c) == key.code = "Char" /\ key.c = c

DigitChars == <<"0", "1", "2", "3", "4", "5", "6", "7", "8", "9">>
\* char::to_digit(10)
to_digit(c) ==
    IF \E i \in 1..10 : DigitChars[i] = c
    THEN Some((CHOOSE i \in 1..10 : DigitChars[i] = c) - 1)
    ELSE None
\* char::is_whitespace, on the characters of the model
is_whitespace(c) == c \in {" ", NL, "\t"}

(***************************************************************************)
(* ropey::Rope, as the code uses it.                                       *)
(***************************************************************************)
len_chars(r) == Len(r)
\* line breaks among the first n chars
CountNL(r, n) == Cardinality({i \in 1..n : r[i] = NL})
\* Rope::len_lines: an empty rope has one line, a final line break opens
\* a last, empty line
len_lines(r) == CountNL(r, Len(r)) + 1
\* Rope::char_to_line, for c <= len_chars
char_to_line(r, c) == CountNL(r, c)
\* Rope::line_to_char, for l <= len_lines (l = len_lines gives len_chars)
line_to_char(r, l) ==
    IF l = 0 THEN 0
    ELSE IF l >= len_lines(r) THEN Len(r)
    ELSE CHOOSE i \in 1..Len(r) : r[i] = NL /\ CountNL(r, i) = l
\* Rope::slice(s..e)
slice(r, s, e) == SubSeq(r, s + 1, e)
\* Rope::remove(s..e)
remove(r, s, e) == SubSeq(r, 1, s) \o SubSeq(r, e + 1, Len(r))
\* Rope::insert(at, text)
insert(r, at, text) == SubSeq(r, 1, at) \o text \o SubSeq(r, at + 1, Len(r))
\* Rope::line(l), line break included
line(r, l) == slice(r, line_to_char(r, l), line_to_char(r, l + 1))
\* the lines of a text without their line breaks (Rope::lines, trimmed)
Lines(r) ==
    [l \in 1..len_lines(r) |->
        LET ln == line(r, l - 1)
        IN  IF Len(ln) > 0 /\ ln[Len(ln)] = NL THEN SubSeq(ln, 1, Len(ln) - 1) ELSE ln]

line_len_chars(r, l) ==
    IF l >= len_lines(r) THEN 0
    ELSE LET ln == line(r, l)
         IN  IF Len(ln) = 0 THEN 0
             ELSE IF ln[Len(ln)] = NL THEN Len(ln) - 1 ELSE Len(ln)

(***************************************************************************)
(* The App after App::new on a file holding `markdown`.                    *)
(***************************************************************************)
NoChange == [tag |-> "None", text |-> <<>>, n |-> 0, linewise |-> FALSE, c |-> ""]
EmptyRegister == [text |-> <<>>, linewise |-> FALSE]

\* ThemeManager::theme_names: the names of the themes found, sorted and
\* without repetition (theme.rs, lines 43-47); here twelve of the themes
\* that come with the binary
theme_names ==
    << "1337", "Coldark-Cold", "Coldark-Dark", "DarkNeon", "Dracula", "GitHub",
       "Monokai Extended", "Nord", "OneHalfDark", "OneHalfLight",
       "Solarized (dark)", "Solarized (light)" >>

\* ThemeManager::fallback_name, where the default theme of the assets is
\* among the names
fallback_name == "Monokai Extended"

\* Iterator::position
position(seq, x) ==
    IF \E i \in 1..Len(seq) : seq[i] = x
    THEN Some((CHOOSE i \in 1..Len(seq) : seq[i] = x /\ \A j \in 1..(i - 1) : seq[j] # x) - 1)
    ELSE None

\* App::new under a configuration with `theme`; config_file is the theme of
\* the configuration file on disk
new_with_theme(markdown, theme) ==
    [ theme |-> theme,
      config_file |-> theme,
      theme_selected |-> unwrap_or(position(theme_names, theme), 0),
      theme_before_picker |-> None,
      rope |-> markdown,
      source |-> markdown,
      edit_scroll |-> 0,
      cursor_char |-> 0,
      preferred_col |-> None,
      dirty |-> FALSE,
      parsed |-> markdown,
      render_dirty |-> FALSE,
      pending_op |-> None,
      pending_register |-> None,
      register_waiting |-> FALSE,
      registers |-> [r \in {"\""} |-> EmptyRegister],
      count |-> None,
      last_change |-> NoChange,
      undo_stack |-> <<>>,
      redo_stack |-> <<>>,
      insert_record |-> None,
      visual_anchor |-> None,
      replace_pending |-> FALSE,
      pending_change_lines |-> None,
      mode |-> "Edit",
      command_input |-> <<>>,
      status |-> Some(to_string("NORMAL")),
      reload |-> [pending |-> FALSE, deadline |-> None],
      suppress_reload_until |-> None ]

new(markdown) == new_with_theme(markdown, fallback_name)

(***************************************************************************)
(* Cursor movement (all on the App record s).                              *)
(***************************************************************************)
mark_render_dirty(s) == [s EXCEPT !.render_dirty = TRUE]

cursor_line(s) == char_to_line(s.rope, s.cursor_char)
cursor_col(s) == saturating_sub(s.cursor_char, line_to_char(s.rope, cursor_line(s)))

move_cursor_left(s) ==
    [s EXCEPT !.cursor_char = IF @ > 0 THEN @ - 1 ELSE @, !.preferred_col = None]

move_cursor_right(s) ==
    [s EXCEPT !.cursor_char = IF @ < len_chars(s.rope) THEN @ + 1 ELSE @,
              !.preferred_col = None]

\* the common tail of move_cursor_up, _down and _page
move_to_line(s, target_line) ==
    LET desired == unwrap_or(s.preferred_col, cursor_col(s))
        target_col == Min(desired, line_len_chars(s.rope, target_line))
    IN  [s EXCEPT !.cursor_char = line_to_char(s.rope, target_line) + target_col,
                  !.preferred_col = Some(desired)]

move_cursor_up(s) ==
    IF cursor_line(s) = 0 THEN s ELSE move_to_line(s, cursor_line(s) - 1)

move_cursor_down(s) ==
    IF cursor_line(s) >= saturating_sub(len_lines(s.rope), 1) THEN s
    ELSE move_to_line(s, cursor_line(s) + 1)

move_cursor_page(s, delta) ==
    LET max_line == saturating_sub(len_lines(s.rope), 1)
        target_line == IF delta < 0 THEN saturating_sub(cursor_line(s), -delta)
                       ELSE Min(cursor_line(s) + delta, max_line)
    IN  move_to_line(s, target_line)

move_cursor_line_start(s) ==
    [s EXCEPT !.cursor_char = line_to_char(s.rope, cursor_line(s)),
              !.preferred_col = None]

move_cursor_line_end(s) ==
    [s EXCEPT !.cursor_char = line_to_char(s.rope, cursor_line(s))
                                + line_len_chars(s.rope, cursor_line(s)),
              !.preferred_col = None]

move_cursor_file_start(s) ==
    [s EXCEPT !.cursor_char = 0, !.edit_scroll = 0, !.preferred_col = None]

move_cursor_file_end(s) ==
    IF len_chars(s.rope) = 0 THEN [s EXCEPT !.cursor_char = 0]
    ELSE LET c == saturating_sub(len_chars(s.rope), 1)
         IN  [s EXCEPT !.cursor_char = c,
                       !.edit_scroll = char_to_line(s.rope, c),
                       !.preferred_col = None]

ensure_cursor_visible(s, height) ==
    LET ln == cursor_line(s)
    IN  IF ln < s.edit_scroll THEN [s EXCEPT !.edit_scroll = ln]
        ELSE IF ln >= s.edit_scroll + height
             THEN [s EXCEPT !.edit_scroll = saturating_sub(ln, saturating_sub(height, 1))]
             ELSE s

is_at_line_end(s) == cursor_col(s) >= line_len_chars(s.rope, cursor_line(s))

\* leading whitespace of the cursor's line, up to its line break
LeadingWs(ln) ==
    IF \E j \in 1..Len(ln) : ~is_whitespace(ln[j]) \/ ln[j] \in {NL, "\r"}
    THEN (CHOOSE j \in 1..Len(ln) :
            /\ ~is_whitespace(ln[j]) \/ ln[j] \in {NL, "\r"}
            /\ \A k \in 1..(j - 1) : is_whitespace(ln[k]) /\ ln[k] \notin {NL, "\r"}) - 1
    ELSE Len(ln)

move_cursor_first_non_ws(s) ==
    [s EXCEPT !.cursor_char = line_to_char(s.rope, cursor_line(s))
                                + LeadingWs(line(s.rope, cursor_line(s))),
              !.preferred_col = None]

(***************************************************************************)
(* Pending state, counts and registers.                                    *)
(***************************************************************************)
clear_pending(s) ==
    [s EXCEPT !.pending_op = None, !.count = None, !.pending_register = None,
              !.register_waiting = FALSE, !.replace_pending = FALSE]

\* a push_count that adds the digit without shifting the count
push_count_adds(s, digit) == [s EXCEPT !.count = Some(unwrap_or(@, 0) + digit)]

push_count(s, digit) == [s EXCEPT !.count = Some(unwrap_or(@, 0) * 10 + digit)]

\* take_count: the value it returns, and the App it leaves
take_count_value(s) == unwrap_or(s.count, 1)
take_count(s) == [s EXCEPT !.count = None]

consume_register_wait(s, key) ==
    [s EXCEPT !.register_waiting = FALSE,
              !.pending_register = IF key.code = "Char" THEN Some(key.c) ELSE @]

\* consume_active_register: the register it returns, and the App it leaves
active_register(s) == unwrap_or(s.pending_register, "\"")
consume_active_register(s) == [s EXCEPT !.pending_register = None]

\* HashMap::insert
map_insert(m, k, v) == [x \in DOMAIN m \cup {k} |-> IF x = k THEN v ELSE m[x]]

set_register(s, text, linewise, is_yank) ==
    LET reg == [text |-> text, linewise |-> linewise]
        target == active_register(s)
        r1 == map_insert(map_insert(s.registers, target, reg), "\"", reg)
    IN  [consume_active_register(s) EXCEPT
            !.registers = IF is_yank THEN map_insert(r1, "0", reg) ELSE r1]

(***************************************************************************)
(* Undo, redo and the dirty flag.                                          *)
(***************************************************************************)
\* push_undo, had it kept what was undone
push_undo_keeps_redo(s) == [s EXCEPT !.undo_stack = Append(@, s.rope)]

push_undo(s) ==
    [s EXCEPT !.undo_stack = Append(@, s.rope), !.redo_stack = <<>>]

update_dirty(s) == [s EXCEPT !.dirty = (s.rope # s.source)]

undo(s) ==
    IF s.undo_stack = <<>> THEN s
    ELSE LET prev == s.undo_stack[Len(s.undo_stack)]
             s1 == [s EXCEPT !.undo_stack = SubSeq(@, 1, Len(@) - 1),
                             !.redo_stack = Append(@, s.rope),
                             !.rope = prev,
                             !.cursor_char = Min(@, len_chars(prev))]
         IN  update_dirty(mark_render_dirty(s1))

\* redo, had it not kept the current buffer for undo
redo_without_snapshot(s) ==
    IF s.redo_stack = <<>> THEN s
    ELSE LET next == s.redo_stack[Len(s.redo_stack)]
             s1 == [s EXCEPT !.redo_stack = SubSeq(@, 1, Len(@) - 1),
                             !.rope = next,
                             !.cursor_char = Min(@, len_chars(next))]
         IN  update_dirty(mark_render_dirty(s1))

redo(s) ==
    IF s.redo_stack = <<>> THEN s
    ELSE LET next == s.redo_stack[Len(s.redo_stack)]
             s1 == [s EXCEPT !.redo_stack = SubSeq(@, 1, Len(@) - 1),
                             !.undo_stack = Append(@, s.rope),
                             !.rope = next,
                             !.cursor_char = Min(@, len_chars(next))]
         IN  update_dirty(mark_render_dirty(s1))


(***************************************************************************)
(* Insert-mode primitives.                                                 *)
(***************************************************************************)
record_push(rec, text) == IF rec = None THEN None ELSE Some(rec[1] \o text)
record_pop(rec) ==
    IF rec = None \/ rec[1] = <<>> THEN rec ELSE Some(SubSeq(rec[1], 1, Len(rec[1]) - 1))

insert_str(s, text) ==
    [s EXCEPT !.rope = insert(@, s.cursor_char, text),
              !.cursor_char = @ + Len(text),
              !.preferred_col = None,
              !.insert_record = record_push(@, text),
              !.render_dirty = TRUE,
              !.dirty = TRUE]

insert_char(s, c) == insert_str(s, <<c>>)

backspace(s) ==
    IF s.cursor_char = 0 THEN s
    ELSE [s EXCEPT !.rope = remove(@, s.cursor_char - 1, s.cursor_char),
                   !.cursor_char = @ - 1,
                   !.preferred_col = None,
                   !.insert_record = record_pop(@),
                   !.render_dirty = TRUE,
                   !.dirty = TRUE]

delete(s) ==
    IF s.cursor_char >= len_chars(s.rope) THEN s
    ELSE [s EXCEPT !.rope = remove(@, s.cursor_char, s.cursor_char + 1),
                   !.preferred_col = None,
                   !.render_dirty = TRUE,
                   !.dirty = TRUE]

(***************************************************************************)
(* Mode changes.                                                           *)
(***************************************************************************)
enter_insert_mode(s) ==
    LET s1 == IF s.mode # "Insert"
              THEN [push_undo(s) EXCEPT !.insert_record = Some(<<>>)]
              ELSE s
    IN  clear_pending([s1 EXCEPT !.mode = "Insert", !.status = Some(to_string("INSERT"))])

exit_insert_mode(s) ==
    LET s1 == [s EXCEPT !.cursor_char = saturating_sub(@, 1),
                        !.pending_change_lines = None,
                        !.insert_record = None]
        record == s.insert_record
        s2 == IF record # None /\ record[1] # <<>>
              THEN [s1 EXCEPT !.last_change =
                      IF s.pending_change_lines # None
                      THEN [NoChange EXCEPT !.tag = "ChangeLines", !.text = record[1],
                                            !.n = s.pending_change_lines[1]]
                      ELSE [NoChange EXCEPT !.tag = "Insert", !.text = record[1]]]
              ELSE s1
    IN  clear_pending([s2 EXCEPT !.mode = "Edit", !.status = Some(to_string("NORMAL"))])

enter_visual_char(s) ==
    clear_pending([s EXCEPT !.mode = "VisualChar",
                            !.visual_anchor = Some(s.cursor_char),
                            !.status = Some(to_string("VISUAL"))])

enter_visual_line(s) ==
    clear_pending([s EXCEPT !.mode = "VisualLine",
                            !.visual_anchor = Some(s.cursor_char),
                            !.status = Some(to_string("VISUAL LINE"))])

exit_visual_mode(s) ==
    clear_pending([s EXCEPT !.mode = "Edit", !.visual_anchor = None,
                            !.status = Some(to_string("NORMAL"))])

(***************************************************************************)
(* Edit-mode primitives.                                                   *)
(***************************************************************************)
open_line_below(s) ==
    LET ln == char_to_line(s.rope, s.cursor_char)
        insert_at == IF ln + 1 >= len_lines(s.rope) THEN len_chars(s.rope)
                     ELSE line_to_char(s.rope, ln + 1)
    IN  [push_undo(s) EXCEPT !.rope = insert(@, insert_at, <<NL>>),
                             !.cursor_char = insert_at + 1,
                             !.render_dirty = TRUE,
                             !.dirty = TRUE]

open_line_above(s) ==
    LET insert_at == line_to_char(s.rope, char_to_line(s.rope, s.cursor_char))
    IN  [push_undo(s) EXCEPT !.rope = insert(@, insert_at, <<NL>>),
                             !.cursor_char = insert_at,
                             !.render_dirty = TRUE,
                             !.dirty = TRUE]

delete_chars(s, count) ==
    IF count = 0 \/ s.cursor_char >= len_chars(s.rope) THEN s
    ELSE LET end == Min(s.cursor_char + count, len_chars(s.rope))
             text == slice(s.rope, s.cursor_char, end)
             s1 == set_register(push_undo(s), text, FALSE, FALSE)
         IN  [s1 EXCEPT !.rope = remove(@, s.cursor_char, end),
                        !.last_change = [NoChange EXCEPT !.tag = "DeleteChars", !.n = count],
                        !.render_dirty = TRUE,
                        !.dirty = TRUE]

\* line_range: <<start, end>>
line_range(r, start_line, count) ==
    LET end_line == Min(start_line + count, len_lines(r))
    IN  << line_to_char(r, start_line),
           IF end_line >= len_lines(r) THEN len_chars(r) ELSE line_to_char(r, end_line) >>

delete_lines(s, count0) ==
    LET ln == char_to_line(s.rope, s.cursor_char)
        count == Max(count0, 1)
        range == line_range(s.rope, ln, count)
        start == range[1]
        end == range[2]
        s1 == set_register(push_undo(s), slice(s.rope, start, end), TRUE, FALSE)
        rope1 == remove(s.rope, start, end)
    IN  IF start = end THEN s
        ELSE [s1 EXCEPT !.rope = rope1,
                        !.cursor_char =
                            line_to_char(rope1, Min(ln, saturating_sub(len_lines(rope1), 1))),
                        !.last_change = [NoChange EXCEPT !.tag = "DeleteLines", !.n = count],
                        !.render_dirty = TRUE,
                        !.dirty = TRUE]

yank_lines(s, count0) ==
    LET ln == char_to_line(s.rope, s.cursor_char)
        count == Max(count0, 1)
        range == line_range(s.rope, ln, count)
    IN  [set_register(s, slice(s.rope, range[1], range[2]), TRUE, TRUE)
            EXCEPT !.status = Some(format("Yanked {count} line(s)", <<count>>))]

change_lines(s, count) ==
    enter_insert_mode([delete_lines(s, count) EXCEPT !.pending_change_lines = Some(count)])

\* text inserted `count` times at one place
Repeated(text, count) ==
    [i \in 1..(count * Len(text)) |-> text[((i - 1) % Len(text)) + 1]]

\* the register a paste reads: the active one, else the unnamed one
paste_register(s) ==
    IF active_register(s) \in DOMAIN s.registers THEN s.registers[active_register(s)]
    ELSE s.registers["\""]

\* paste_after and paste_before differ in where they insert
paste_at(s, count, linewise_at, charwise_at) ==
    LET reg == paste_register(s)
        s0 == consume_active_register(s)
        s1 == push_undo(s0)
        all == Repeated(reg.text, count)
        s2 == IF reg.linewise
              THEN [s1 EXCEPT !.rope = insert(@, linewise_at, all),
                              !.cursor_char = linewise_at]
              ELSE [s1 EXCEPT !.rope = insert(@, charwise_at, all),
                              !.cursor_char = saturating_sub(charwise_at + Len(all), 1)]
    IN  IF reg.text = <<>> THEN s0
        ELSE [s2 EXCEPT !.last_change = [NoChange EXCEPT !.tag = "Paste", !.text = reg.text,
                                                         !.linewise = reg.linewise],
                        !.render_dirty = TRUE,
                        !.dirty = TRUE]

paste_after(s, count) ==
    LET ln == char_to_line(s.rope, s.cursor_char)
    IN  paste_at(s, count,
                 IF ln + 1 >= len_lines(s.rope) THEN len_chars(s.rope)
                 ELSE line_to_char(s.rope, ln + 1),
                 Min(s.cursor_char + 1, len_chars(s.rope)))

paste_before(s, count) ==
    paste_at(s, count,
             line_to_char(s.rope, char_to_line(s.rope, s.cursor_char)),
             s.cursor_char)

\* a selection_range whose charwise end is the far end itself, not one past
selection_range_exclusive(s) ==
    IF s.visual_anchor = None THEN None
    ELSE LET anchor == s.visual_anchor[1]
             cursor == s.cursor_char
         IN  IF s.mode = "VisualLine"
             THEN LET start_line == char_to_line(s.rope, Min(anchor, cursor))
                      range == line_range(s.rope, start_line, 1)
                  IN  Some(<<range[1], range[2], TRUE>>)
             ELSE Some(<<Min(anchor, cursor),
                         Min(Max(anchor, cursor), len_chars(s.rope)), FALSE>>)

\* selection_range: None, or Some(<<start, end, linewise>>)
selection_range(s) ==
    IF s.visual_anchor = None THEN None
    ELSE LET anchor == s.visual_anchor[1]
             cursor == s.cursor_char
         IN  IF s.mode = "VisualLine"
             THEN LET start_line == char_to_line(s.rope, Min(anchor, cursor))
                      end_line == char_to_line(s.rope, Max(anchor, cursor))
                      range == line_range(s.rope, start_line, end_line - start_line + 1)
                  IN  Some(<<range[1], range[2], TRUE>>)
             ELSE Some(<<Min(anchor, cursor),
                         Min(Max(anchor, cursor) + 1, len_chars(s.rope)), FALSE>>)

yank_selection(s) ==
    LET sel == selection_range(s)
    IN  IF sel = None THEN s
        ELSE set_register(s, slice(s.rope, sel[1][1], sel[1][2]), sel[1][3], TRUE)

delete_selection(s) ==
    LET sel == selection_range(s)
        start == sel[1][1]
        end == sel[1][2]
        linewise == sel[1][3]
        line_count == IF linewise
                      THEN saturating_sub(char_to_line(s.rope, saturating_sub(end, 1)),
                                          char_to_line(s.rope, start)) + 1
                      ELSE 0
        char_count == IF linewise THEN 0 ELSE Max(saturating_sub(end, start), 1)
        s1 == set_register(push_undo(s), slice(s.rope, start, end), linewise, FALSE)
        rope1 == remove(s.rope, start, end)
    IN  IF sel = None THEN s
        ELSE [s1 EXCEPT !.rope = rope1,
                        !.cursor_char = Min(start, len_chars(rope1)),
                        !.last_change =
                            IF linewise
                            THEN [NoChange EXCEPT !.tag = "DeleteLines", !.n = Max(line_count, 1)]
                            ELSE [NoChange EXCEPT !.tag = "DeleteChars", !.n = Max(char_count, 1)],
                        !.render_dirty = TRUE,
                        !.dirty = TRUE]

replace_char(s, c) ==
    IF s.cursor_char >= len_chars(s.rope) THEN s
    ELSE [push_undo(s) EXCEPT
            !.rope = insert(remove(@, s.cursor_char, s.cursor_char + 1), s.cursor_char, <<c>>),
            !.last_change = [NoChange EXCEPT !.tag = "ReplaceChar", !.c = c],
            !.render_dirty = TRUE,
            !.dirty = TRUE]

repeat_last_change(s) ==
    LET change == s.last_change
    IN  CASE change.tag = "Insert" ->
               IF change.text = <<>> THEN s
               ELSE LET insert_at == Min(s.cursor_char + 1, len_chars(s.rope))
                    IN  [push_undo(s) EXCEPT
                            !.rope = insert(@, insert_at, change.text),
                            !.cursor_char = insert_at + saturating_sub(Len(change.text), 1),
                            !.render_dirty = TRUE,
                            !.dirty = TRUE]
          [] change.tag = "DeleteChars" -> delete_chars(s, change.n)
          [] change.tag = "DeleteLines" -> delete_lines(s, change.n)
          [] change.tag = "Paste" ->
               paste_after([s EXCEPT !.pending_register = Some("\""),
                                     !.registers = map_insert(@, "\"",
                                         [text |-> change.text, linewise |-> change.linewise])],
                           1)
          [] change.tag = "ReplaceChar" -> replace_char(s, change.c)
          [] change.tag = "ChangeLines" ->
               LET s1 == delete_lines(s, change.n)
               IN  IF change.text = <<>> THEN s1
                   ELSE [s1 EXCEPT
                            !.rope = insert(@, s1.cursor_char, change.text),
                            !.cursor_char = @ + saturating_sub(Len(change.text), 1),
                            !.last_change = change,
                            !.render_dirty = TRUE,
                            !.dirty = TRUE]
          [] OTHER -> s


(***************************************************************************)
(* Saving, discarding, leaving the editor, commands.                       *)
(***************************************************************************)
\* sync_render_from_rope: the preview is re-rendered from the buffer
\* (parsed: the text the parsed and rendered document was made from)
sync_render_from_rope(s) ==
    IF ~s.render_dirty THEN s
    ELSE [s EXCEPT !.parsed = s.rope, !.render_dirty = FALSE]

\* discard_changes, had it only cleared the flag
discard_changes_keeps(s) == [s EXCEPT !.dirty = FALSE, !.render_dirty = TRUE]

discard_changes(s) ==
    [s EXCEPT !.rope = s.source,
              !.cursor_char = Min(@, len_chars(s.source)),
              !.render_dirty = TRUE,
              !.dirty = FALSE]

exit_edit_mode(s) ==
    [clear_pending(s) EXCEPT !.mode = "Normal",
                             !.visual_anchor = None,
                             !.insert_record = None,
                             !.pending_change_lines = None,
                             !.source = s.rope,
                             !.parsed = s.rope,
                             !.render_dirty = FALSE,
                             !.status = IF s.dirty THEN Some(to_string("Modified")) ELSE Some(to_string("View"))]

\* a save_buffer that opens no suppression window
save_buffer_no_window(s, t, write_ok) ==
    IF ~write_ok THEN [s EXCEPT !.status = Some(format("Save failed: {err}", err))]
    ELSE [s EXCEPT !.source = s.rope,
                   !.dirty = FALSE,
                   !.status = Some(to_string("Saved"))]

\* a save_buffer that takes the buffer for saved whether or not it was
\* written
save_buffer_marks_saved(s, t, write_ok) ==
    IF ~write_ok THEN [s EXCEPT !.source = s.rope,
                                !.dirty = FALSE,
                                !.status = Some(format("Save failed: {err}", err))]
    ELSE [s EXCEPT !.source = s.rope,
                   !.dirty = FALSE,
                   !.suppress_reload_until = Some(t + SuppressMs),
                   !.status = Some(to_string("Saved"))]

\* save_buffer at time t; write_ok: whether fs::write succeeded
save_buffer(s, t, write_ok) ==
    IF ~write_ok THEN [s EXCEPT !.status = Some(format("Save failed: {err}", err))]
    ELSE [s EXCEPT !.source = s.rope,
                   !.dirty = FALSE,
                   !.suppress_reload_until = Some(t + SuppressMs),
                   !.status = Some(to_string("Saved"))]

\* str::trim
RECURSIVE trim_start(_)
trim_start(text) ==
    IF text # <<>> /\ is_whitespace(text[1]) THEN trim_start(Tail(text)) ELSE text
RECURSIVE trim_end(_)
trim_end(text) ==
    IF text # <<>> /\ is_whitespace(text[Len(text)])
    THEN trim_end(SubSeq(text, 1, Len(text) - 1)) ELSE text
trim(text) == trim_end(trim_start(text))

\* the save commands, had `e` been one of them
SaveCommandsAndE == { <<"w">>, <<"w", "r", "i", "t", "e">>, <<"w", "!">>, <<"e">> }
SaveCommands == { <<"w">>, <<"w", "r", "i", "t", "e">>, <<"w", "!">> }
SaveQuitCommands == { <<"w", "q">>, <<"x">> }
\* the quit commands without the short form
QuitCommandsLong == { <<"q", "u", "i", "t">> }
QuitCommands == { <<"q">>, <<"q", "u", "i", "t">> }
ForceQuitCommands == { <<"q", "!">>, <<"q", "u", "i", "t", "!">> }

execute_command(s, command, t, write_ok) ==
    LET cmd == trim(command)
    IN  CASE cmd = <<>> -> [s EXCEPT !.mode = "Edit"]
          [] cmd \in SaveCommands ->
               [save_buffer(s, t, write_ok) EXCEPT !.mode = "Edit"]
          [] cmd \in SaveQuitCommands ->
               LET s1 == save_buffer(s, t, write_ok)
               IN  IF ~s1.dirty THEN exit_edit_mode(s1) ELSE [s1 EXCEPT !.mode = "Edit"]
          [] cmd \in QuitCommands ->
               IF s.dirty
               THEN [s EXCEPT !.status = Some(to_string("No write since last change (add ! to override)")),
                              !.mode = "Edit"]
               ELSE exit_edit_mode(s)
          [] cmd \in ForceQuitCommands -> exit_edit_mode(discard_changes(s))
          [] OTHER -> [s EXCEPT !.status = Some(format("Not an editor command: {cmd}", cmd)), !.mode = "Edit"]

(***************************************************************************)
(* Reloading the file.                                                     *)
(***************************************************************************)
request_reload(s, t) ==
    [s EXCEPT !.reload = [pending |-> TRUE, deadline |-> Some(t + DebounceMs)]]

\* an on_fs_event that looks at the mode and not at dirty
on_fs_event_ignores_dirty(s, t) ==
    IF s.mode \in {"Insert", "VisualChar", "VisualLine", "CommandInput"}
    THEN [s EXCEPT !.status = Some(to_string("External change ignored (editing)"))]
    ELSE IF s.suppress_reload_until # None /\ t < s.suppress_reload_until[1]
         THEN s
         ELSE request_reload([s EXCEPT !.suppress_reload_until = None], t)

on_fs_event(s, t) ==
    IF s.dirty \/ s.mode \in {"Insert", "VisualChar", "VisualLine", "CommandInput"}
    THEN [s EXCEPT !.status = Some(to_string("External change ignored (editing)"))]
    ELSE IF s.suppress_reload_until # None /\ t < s.suppress_reload_until[1]
         THEN s
         ELSE request_reload([s EXCEPT !.suppress_reload_until = None], t)

\* reload_file; outcome: how reading and parsing the file went, text: the
\* file's content
ReloadOutcomes == {"ok", "read_err", "parse_err"}

\* a reload_file that drops the undo history before it reads the file
reload_file_clears_first(s, outcome, text) ==
    CASE outcome = "read_err" ->
             [s EXCEPT !.undo_stack = <<>>, !.redo_stack = <<>>,
                       !.status = Some(format("Failed to reload: {err}", err))]
      [] outcome = "parse_err" ->
             [s EXCEPT !.undo_stack = <<>>, !.redo_stack = <<>>,
                       !.status = Some(format("Parse error: {err}", err))]
      [] OTHER -> [s EXCEPT !.source = text,
                            !.rope = text,
                            !.undo_stack = <<>>,
                            !.redo_stack = <<>>,
                            !.parsed = text,
                            !.render_dirty = FALSE,
                            !.status = Some(to_string("Reloaded"))]

reload_file(s, outcome, text) ==
    CASE outcome = "read_err" ->
             [s EXCEPT !.status = Some(format("Failed to reload: {err}", err))]
      [] outcome = "parse_err" ->
             [s EXCEPT !.status = Some(format("Parse error: {err}", err))]
      [] OTHER -> [s EXCEPT !.source = text,
                            !.rope = text,
                            !.undo_stack = <<>>,
                            !.redo_stack = <<>>,
                            !.parsed = text,
                            !.render_dirty = FALSE,
                            !.status = Some(to_string("Reloaded"))]

\* a handle_pending_reload that does not wait for the deadline
reload_due_at_once(s, t) == s.reload.pending

\* whether handle_pending_reload at time t goes on to reload_file
reload_due(s, t) ==
    /\ s.reload.pending
    /\ ~(s.reload.deadline # None /\ t < s.reload.deadline[1])

\* a handle_pending_reload that leaves the reload pending
handle_pending_reload_keeps(s, t, outcome, text) ==
    IF ~reload_due(s, t) THEN s ELSE reload_file(s, outcome, text)

handle_pending_reload(s, t, outcome, text) ==
    IF ~reload_due(s, t) THEN s
    ELSE reload_file([s EXCEPT !.reload = [pending |-> FALSE, deadline |-> None]],
                     outcome, text)


(***************************************************************************)
(* Key handlers.  Each gives the App it leaves and what handle_key         *)
(* returns (quit).  The keys of the preview, the outline, search and the   *)
(* theme picker (B H [ ] / n N t) are not among the keys of the model.     *)
(***************************************************************************)
Ret(s) == [app |-> s, quit |-> FALSE]

\* for _ in 0..count { move }
RECURSIVE move_times(_, _, _)
move_times(s, dir, count) ==
    IF count = 0 THEN s
    ELSE move_times(CASE dir = "left" -> move_cursor_left(s)
                      [] dir = "right" -> move_cursor_right(s)
                      [] dir = "up" -> move_cursor_up(s)
                      [] OTHER -> move_cursor_down(s),
                    dir, count - 1)

\* handle_normal_mode: the arms of `match key.code` that fall through to
\* the end of the function
normal_match(s, key, h, t) ==
    CASE key.code = "Esc" -> clear_pending(s)
      [] IsChar(key, "q") ->
           [s EXCEPT !.status = Some(to_string("No write since last change (use :q! to discard)"))]
      [] IsChar(key, "\"") -> [s EXCEPT !.register_waiting = TRUE]
      [] IsChar(key, "h") \/ key.code = "Left" ->
           move_times(take_count(s), "left", take_count_value(s))
      [] IsChar(key, "j") \/ key.code = "Down" ->
           move_times(take_count(s), "down", take_count_value(s))
      [] IsChar(key, "k") \/ key.code = "Up" ->
           move_times(take_count(s), "up", take_count_value(s))
      [] IsChar(key, "l") \/ key.code = "Right" ->
           move_times(take_count(s), "right", take_count_value(s))
      [] key.code = "PageUp" -> move_cursor_page(s, -h)
      [] key.code = "PageDown" -> move_cursor_page(s, h)
      [] IsChar(key, "i") -> enter_insert_mode(s)
      [] IsChar(key, "a") ->
           enter_insert_mode(IF ~is_at_line_end(s) THEN move_cursor_right(s) ELSE s)
      [] IsChar(key, "I") -> enter_insert_mode(move_cursor_first_non_ws(s))
      [] IsChar(key, "A") -> enter_insert_mode(move_cursor_line_end(s))
      [] IsChar(key, "o") -> enter_insert_mode(open_line_below(s))
      [] IsChar(key, "O") -> enter_insert_mode(open_line_above(s))
      [] IsChar(key, "v") -> enter_visual_char(s)
      [] IsChar(key, "V") -> enter_visual_line(s)
      [] IsChar(key, "x") -> delete_chars(take_count(s), take_count_value(s))
      [] IsChar(key, "d") -> [s EXCEPT !.pending_op = Some("Delete")]
      [] IsChar(key, "c") -> [s EXCEPT !.pending_op = Some("Change")]
      [] IsChar(key, "y") -> [s EXCEPT !.pending_op = Some("Yank")]
      [] IsChar(key, "p") -> paste_after(take_count(s), take_count_value(s))
      [] IsChar(key, "P") -> paste_before(take_count(s), take_count_value(s))
      [] IsChar(key, "u") -> undo(s)
      [] IsChar(key, ".") -> repeat_last_change(s)
      [] IsChar(key, "r") -> [s EXCEPT !.replace_pending = TRUE]
      [] IsChar(key, "R") -> request_reload(s, t)
      [] IsChar(key, "g") -> move_cursor_file_start(s)
      [] IsChar(key, "G") -> move_cursor_file_end(s)
      [] IsChar(key, "t") ->
           [s EXCEPT !.mode = "ThemePicker",
                     !.theme_before_picker = Some(s.theme),
                     !.theme_selected = unwrap_or(position(theme_names, s.theme), 0)]
      [] OTHER -> s

\* the operator a repeated letter fires
fire_pending(s, op) ==
    CASE op = "Delete" -> delete_lines(take_count(s), take_count_value(s))
      [] op = "Change" -> change_lines(take_count(s), take_count_value(s))
      [] OTHER -> yank_lines(take_count(s), take_count_value(s))

same_letter(op, key) ==
    \/ op = "Delete" /\ IsChar(key, "d")
    \/ op = "Change" /\ IsChar(key, "c")
    \/ op = "Yank" /\ IsChar(key, "y")

handle_normal_mode(s, key, h, t) ==
    LET half == Max(h \div 2, 1)
        digit == IF key.code = "Char" THEN to_digit(key.c) ELSE None
    IN  IF s.replace_pending
        THEN Ret(IF key.code = "Char"
                 THEN replace_char([s EXCEPT !.replace_pending = FALSE], key.c)
                 ELSE [s EXCEPT !.replace_pending = FALSE])
        ELSE IF s.register_waiting THEN Ret(consume_register_wait(s, key))
        ELSE IF key.ctrl /\ IsChar(key, "d")
        THEN Ret(move_cursor_page(take_count(s), half * Max(take_count_value(s), 1)))
        ELSE IF key.ctrl /\ IsChar(key, "u")
        THEN Ret(move_cursor_page(take_count(s), -(half * Max(take_count_value(s), 1))))
        ELSE IF digit # None
        THEN IF digit[1] = 0 /\ s.count = None
             THEN Ret(ensure_cursor_visible(move_cursor_line_start(s), h))
             ELSE Ret(push_count(s, digit[1]))
        ELSE IF s.pending_op # None
        THEN LET s1 == [s EXCEPT !.pending_op = None]
             IN  Ret(IF same_letter(s.pending_op[1], key)
                     THEN fire_pending(s1, s.pending_op[1]) ELSE s1)
        ELSE IF IsChar(key, "q") /\ ~s.dirty THEN [app |-> s, quit |-> TRUE]
        ELSE IF IsChar(key, ":")
        THEN Ret([s EXCEPT !.mode = "CommandInput", !.command_input = <<>>])
        ELSE LET s1 == normal_match(s, key, h, t)
                 s2 == IF s1.pending_op = None /\ ~s1.register_waiting
                       THEN [s1 EXCEPT !.count = None] ELSE s1
             IN  Ret(ensure_cursor_visible(s2, h))

\* config.tab_width (its default)
TabWidth == 4

insert_match(s, key, h) ==
    CASE key.code = "Esc" -> exit_insert_mode(s)
      [] key.code = "Left" -> move_cursor_left(s)
      [] key.code = "Right" -> move_cursor_right(s)
      [] key.code = "Up" -> move_cursor_up(s)
      [] key.code = "Down" -> move_cursor_down(s)
      [] key.code = "PageUp" -> move_cursor_page(s, -h)
      [] key.code = "PageDown" -> move_cursor_page(s, h)
      [] key.code = "Home" -> move_cursor_line_start(s)
      [] key.code = "End" -> move_cursor_line_end(s)
      [] key.code = "Backspace" -> backspace(s)
      [] key.code = "Delete" -> delete(s)
      [] key.code = "Enter" -> insert_char(s, NL)
      [] key.code = "Tab" -> insert_str(s, [i \in 1..Max(TabWidth, 1) |-> " "])
      [] key.code = "Char" -> IF ~key.ctrl THEN insert_char(s, key.c) ELSE s
      [] OTHER -> s

handle_insert_mode(s, key, h, t, write_ok) ==
    IF key.ctrl /\ IsChar(key, "s") THEN Ret(save_buffer(s, t, write_ok))
    ELSE IF key.ctrl /\ IsChar(key, "r") THEN Ret(redo(s))
    ELSE Ret(ensure_cursor_visible(insert_match(s, key, h), h))

visual_match(s, key) ==
    CASE key.code = "Esc" -> exit_visual_mode(s)
      [] IsChar(key, "h") \/ key.code = "Left" -> move_cursor_left(s)
      [] IsChar(key, "j") \/ key.code = "Down" -> move_cursor_down(s)
      [] IsChar(key, "k") \/ key.code = "Up" -> move_cursor_up(s)
      [] IsChar(key, "l") \/ key.code = "Right" -> move_cursor_right(s)
      [] IsChar(key, "0") -> move_cursor_line_start(s)
      [] IsChar(key, "$") -> move_cursor_line_end(s)
      [] IsChar(key, "d") -> exit_visual_mode(delete_selection(s))
      [] IsChar(key, "y") -> exit_visual_mode(yank_selection(s))
      [] IsChar(key, "c") -> enter_insert_mode(exit_visual_mode(delete_selection(s)))
      [] IsChar(key, ":") -> [s EXCEPT !.mode = "CommandInput", !.command_input = <<>>]
      [] OTHER -> s

handle_visual_mode(s, key, h) ==
    IF s.register_waiting THEN Ret(consume_register_wait(s, key))
    ELSE Ret(ensure_cursor_visible(visual_match(s, key), h))

handle_command_input(s, key, t, write_ok) ==
    LET s1 == CASE key.code = "Esc" -> [s EXCEPT !.mode = "Edit", !.command_input = <<>>]
                [] key.code = "Enter" ->
                     execute_command([s EXCEPT !.command_input = <<>>],
                                     trim(s.command_input), t, write_ok)
                [] key.code = "Backspace" ->
                     [s EXCEPT !.command_input =
                                 IF @ = <<>> THEN @ ELSE SubSeq(@, 1, Len(@) - 1)]
                [] key.code = "Char" /\ ~key.ctrl ->
                     [s EXCEPT !.command_input = Append(@, key.c)]
                [] OTHER -> s
    IN  Ret(IF s1.mode \in {"Edit", "Normal"} THEN sync_render_from_rope(s1) ELSE s1)

\* reparse_with_theme: the source (the text last loaded or saved) is parsed
\* and rendered again under the configured theme (lines 591-615)
reparse_with_theme(s, announce) ==
    [s EXCEPT !.parsed = s.source,
              !.status = IF announce THEN Some(format("Theme: ", <<s.theme>>)) ELSE @]

\* the configured theme becomes `theme`, if it is another one, and the
\* document is rendered under it (apply_theme_styles derives the colours of
\* the interface from the configured theme)
set_theme(s, theme) ==
    IF s.theme # theme THEN reparse_with_theme([s EXCEPT !.theme = theme], FALSE) ELSE s

preview_theme_selection(s) ==
    IF s.theme_selected < Len(theme_names)
    THEN set_theme(s, theme_names[s.theme_selected + 1]) ELSE s

\* Esc in the theme picker, had it kept the theme last previewed
keep_theme(s, original) == s

\* Esc in the theme picker: the theme of before the picker, if one was
\* taken, is configured again (lines 428-434)
restore_theme(s, original) ==
    IF original # None THEN set_theme(s, original[1]) ELSE s

\* Enter in the theme picker: the selected theme is configured, written to
\* the configuration file (a failure to write is ignored) and announced
\* (lines 457-462)
choose_theme(s) ==
    IF s.theme_selected < Len(theme_names)
    THEN reparse_with_theme([s EXCEPT !.theme = theme_names[s.theme_selected + 1],
                                      !.config_file = theme_names[s.theme_selected + 1]], TRUE)
    ELSE s

theme_picker_match(s, key, total) ==
    CASE key.code = "Esc" ->
           restore_theme([s EXCEPT !.mode = "Edit", !.theme_before_picker = None],
                         s.theme_before_picker)
      [] key.code = "Up" ->
           IF s.theme_selected > 0
           THEN preview_theme_selection([s EXCEPT !.theme_selected = @ - 1]) ELSE s
      [] key.code = "Down" ->
           IF s.theme_selected + 1 < total
           THEN preview_theme_selection([s EXCEPT !.theme_selected = @ + 1]) ELSE s
      [] key.code = "PageUp" ->
           preview_theme_selection([s EXCEPT !.theme_selected = saturating_sub(@, 10)])
      [] key.code = "PageDown" ->
           preview_theme_selection([s EXCEPT !.theme_selected = Min(@ + 10, total - 1)])
      [] key.code = "Enter" ->
           [choose_theme(s) EXCEPT !.mode = "Edit", !.theme_before_picker = None]
      [] OTHER -> s

handle_theme_picker(s, key) ==
    IF Len(theme_names) = 0 THEN Ret([s EXCEPT !.mode = "Edit"])
    ELSE Ret(theme_picker_match(s, key, Len(theme_names)))

handle_editor_input(s, key, h, t, write_ok) ==
    CASE s.mode \in {"Normal", "Edit"} -> handle_normal_mode(s, key, h, t)
      [] s.mode = "Insert" -> handle_insert_mode(s, key, h, t, write_ok)
      [] s.mode \in {"VisualChar", "VisualLine"} -> handle_visual_mode(s, key, h)
      [] OTHER -> Ret(s)

handle_key(s, key, h, t, write_ok) ==
    IF s.mode = "CommandInput" THEN handle_command_input(s, key, t, write_ok)
    ELSE IF s.mode = "ThemePicker" THEN handle_theme_picker(s, key)
    ELSE handle_editor_input(s, key, h, t, write_ok)

\* whether handling `key` calls save_buffer (and so writes the file)
saves(s, key) ==
    \/ s.mode = "Insert" /\ key.ctrl /\ IsChar(key, "s")
    \/ /\ s.mode = "CommandInput"
       /\ key.code = "Enter"
       /\ trim(s.command_input) \in SaveCommands \cup SaveQuitCommands


(***************************************************************************)
(* The state machine: run_app's loop and its environment.                  *)
(*   app    the App                                                        *)
(*   file   the content of the file on disk                                *)
(*   fsq    watcher events waiting in the channel                          *)
(*   now    the clock (Instant::now), in ms                                *)
(*   pc     where the loop is: poll (draw, then wait for a key), drain     *)
(*          (the watcher's queue, then the pending reload); quit, panic    *)
(*   nkeys  keys handled so far                                            *)
(*   ev     the last step of the loop that ran a handler (history)         *)
(*   g      what the properties remember of the past (history)             *)
(*   view   the renderer at work: a call of one of its functions with its  *)
(*          result, or the preview pane of an App (None in the sessions    *)
(*          of the editor, which never look at it)                         *)
(***************************************************************************)
VARIABLES app, file, fsq, now, pc, nkeys, ev, g, view

vars == <<app, file, fsq, now, pc, nkeys, ev, g, view>>

Alphabet == {"a", NL}
Texts(n) == UNION {[1..k -> Alphabet] : k \in 0..n}

Event(kind, key, fired) == [kind |-> kind, key |-> key, fired |-> fired]

\* no operator, count, register or replace is waiting for its next key
Idle(s) ==
    /\ s.pending_op = None
    /\ s.count = None
    /\ s.pending_register = None
    /\ ~s.register_waiting
    /\ ~s.replace_pending

\* the bounds on what an edit may build
Bounded(s) ==
    /\ len_chars(s.rope) <= MaxLen
    /\ IF s.count = None THEN TRUE ELSE s.count[1] <= MaxCount

InitLoopWith(files, first_pc, scripts, themes) ==
    /\ file \in files
    /\ app \in {new_with_theme(file, theme) : theme \in themes}
    /\ fsq = 0
    /\ now = 0
    /\ pc = first_pc
    /\ nkeys = 0
    /\ ev = Event("init", NoKey, FALSE)
    /\ \E script \in scripts :
           g = [ cmd_rope |-> file, cmd_key |-> NoKey,
                 last_req |-> None, reqs |-> 0, answered |-> 0, last_save |-> None,
                 last |-> "", prev_rope |-> file, seq |-> "",
                 script |-> script, command |-> None, picker |-> None, jump |-> None ]

InitLoop(files, first_pc, scripts) == InitLoopWith(files, first_pc, scripts, {fallback_name})

InitWithScripts(files, first_pc, scripts) ==
    /\ InitLoop(files, first_pc, scripts)
    /\ view = None

InitWith(files, first_pc) == InitWithScripts(files, first_pc, {<<>>})

\* what the draw at the top of the loop (lines 51-63) does to the App
drawn(s) == sync_render_from_rope(s)

\* ui() asks for the cursor's line (cursor_screen_position), and for the
\* selection's lines in VisualLine (edit_text): Rope::char_to_line panics
\* on an offset past the end
DrawPanics(s) ==
    \/ /\ s.mode \notin {"CommandInput", "SearchInput", "ThemePicker"}
       /\ s.cursor_char > len_chars(s.rope)
    \/ /\ s.mode = "VisualLine"
       /\ s.visual_anchor # None
       /\ Max(s.visual_anchor[1], s.cursor_char) > len_chars(s.rope)

\* the loop draws, polls a key and handles it (run_app, lines 51-71)
KeyStepWithin(key, write_ok, next_pc, max) ==
    /\ pc = "poll"
    /\ ~DrawPanics(app)
    /\ nkeys < max
    /\ \E r \in {handle_key(drawn(app), key, EditorHeight, now, write_ok)} :
           /\ Bounded(r.app)
           /\ app' = r.app
           /\ pc' = IF r.quit THEN "quit" ELSE next_pc
    /\ file' = IF saves(app, key) /\ write_ok THEN app.rope ELSE file
    /\ nkeys' = nkeys + 1
    /\ ev' = Event("key", key, FALSE)
    /\ UNCHANGED <<fsq, now, view>>

KeyStep(key, write_ok, next_pc) == KeyStepWithin(key, write_ok, next_pc, MaxKeys)

(***************************************************************************)
(* SpecEdit: the editor alone.  No file-system activity and no clock, so   *)
(* every loop iteration comes down to the key it handles.                  *)
(***************************************************************************)
EditKeys ==
    { Ch(c) : c \in {"h", "j", "k", "l", "0", "1", "2", "x", "d", "c", "y", "p", "P",
                     "r", ".", "o", "O", "i", "a", "I", "A", "v", "V", "u", "\""} }
    \cup { CtrlCh("d"), CtrlCh("u"), CtrlCh("r") }
    \cup { Sp("Esc"), Sp("Enter"), Sp("Backspace"), Sp("Delete") }

InitEdit == InitWith(Texts(MaxFileLen), "poll")

\* history: the buffer and the first key of the command in progress (a
\* command starts with a key handled in Edit mode while nothing is pending)
CmdGhost(key) ==
    IF app.mode \in {"Edit", "Normal"} /\ Idle(app)
    THEN [g EXCEPT !.cmd_rope = app.rope, !.cmd_key = key]
    ELSE g

EditKey(key) == KeyStep(key, TRUE, "poll") /\ g' = CmdGhost(key)

NextEdit == \E key \in EditKeys : EditKey(key)

SpecEdit == InitEdit /\ [][NextEdit]_vars

(***************************************************************************)
(* SpecCount: the editor under the keys of counts and of what may wait     *)
(* for a key when a digit arrives (r, ", d), a motion and a deletion.      *)
(***************************************************************************)
CountKeys ==
    { Ch(c) : c \in {"0", "1", "2", "l", "j", "r", "\"", "d", "x"} } \cup { Sp("Esc") }

NextCount == \E key \in CountKeys : EditKey(key)

SpecCount == InitEdit /\ [][NextCount]_vars

(***************************************************************************)
(* SpecRepeat: the editor under the keys of the commands `.` repeats, one  *)
(* key deeper than SpecEdit.                                               *)
(***************************************************************************)
RepeatKeys ==
    { Ch(c) : c \in {"2", "x", "d", "r", "p", "P", ".", "i", "j"} } \cup { Sp("Esc") }

RepeatKey(key) == KeyStepWithin(key, TRUE, "poll", MaxRepeatKeys) /\ g' = CmdGhost(key)

NextRepeat == \E key \in RepeatKeys : RepeatKey(key)

SpecRepeat == InitEdit /\ [][NextRepeat]_vars

(***************************************************************************)
(* SpecUndo: undo and redo applied to the App as a unit test applies them, *)
(* between the keys of a session.  (The loop itself calls undo on `u` in   *)
(* Edit mode and redo only on Ctrl-r in Insert mode.)  The calls are made  *)
(* where `u` would call undo: in Edit mode with nothing pending.           *)
(***************************************************************************)
UndoKeys ==
    { Ch(c) : c \in {"c", "j", "."} } \cup { Sp("Esc") }

\* history: the call made directly before (last: undo, redo, or redo
\* directly after undo, undo directly after redo; empty after a key or a
\* call on an empty stack), the buffer before that call (prev_rope), and
\* how far the sequence undo, mutating command, redo has come (seq)
UndoGhost(key) ==
    g' = [CmdGhost(key) EXCEPT
             !.last = "",
             !.seq = IF g.seq \in {"u", "um"} /\ app'.rope # app.rope THEN "um"
                     ELSE IF g.seq = "umr" THEN "" ELSE @]

UndoKey(key) == KeyStepWithin(key, TRUE, "poll", MaxUndoKeys) /\ UndoGhost(key)

CallUndo ==
    /\ pc = "poll"
    /\ app.mode = "Edit" /\ Idle(app)
    /\ app' = undo(app)
    /\ ev' = Event("undo", NoKey, app.undo_stack # <<>>)
    /\ g' = [g EXCEPT !.last = IF app.undo_stack = <<>> THEN ""
                               ELSE IF g.last = "redo" THEN "redo_undo" ELSE "undo",
                      !.prev_rope = app.rope,
                      !.seq = IF app.undo_stack = <<>> THEN "" ELSE "u"]
    /\ UNCHANGED <<file, fsq, now, pc, nkeys, view>>

CallRedo ==
    /\ pc = "poll"
    /\ app.mode = "Edit" /\ Idle(app)
    /\ app' = redo(app)
    /\ ev' = Event("redo", NoKey, app.redo_stack # <<>>)
    /\ g' = [g EXCEPT !.last = IF app.redo_stack = <<>> THEN ""
                               ELSE IF g.last = "undo" THEN "undo_redo" ELSE "redo",
                      !.prev_rope = app.rope,
                      !.seq = IF g.seq = "um" THEN "umr" ELSE ""]
    /\ UNCHANGED <<file, fsq, now, pc, nkeys, view>>

NextUndo ==
    \/ \E key \in UndoKeys : UndoKey(key)
    \/ CallUndo
    \/ CallRedo

SpecUndo == InitEdit /\ [][NextUndo]_vars

(***************************************************************************)
(* SpecScript: sessions that type a command line.  A session is a script   *)
(* of keys: an optional first key in Edit mode, `:`, the text of a         *)
(* command, and Enter or Esc.  Writing the file may fail.                  *)
(***************************************************************************)
Typed(text) == [i \in 1..Len(text) |-> Ch(text[i])]

CommandTexts ==
    { <<>>, <<"w">>, <<"w", "r", "i", "t", "e">>, <<"w", "!">>,
      <<"w", "q">>, <<"x">>, <<"q">>, <<"q", "u", "i", "t">>,
      <<"q", "!">>, <<"q", "u", "i", "t", "!">>,
      <<"q", "a">>, <<"w", "q", "!">>, <<"e">>, <<" ", "q">>, <<"e", " ">>, <<" ">> }

ScriptPrefixes == { <<>>, <<Ch("x")>>, <<Ch("v")>>, <<Ch("V")>> }

Scripts ==
    { prefix \o <<Ch(":")>> \o Typed(text) \o <<end>> :
        prefix \in ScriptPrefixes, text \in CommandTexts, end \in {Sp("Enter"), Sp("Esc")} }
    \cup { <<Ch("q")>>, <<Ch("i"), Ch("a"), CtrlCh("s")>> }

InitScript == InitWithScripts(Texts(MaxFileLen), "poll", Scripts)

\* history: the keys still to come (script), and the command the last key
\* executed, if it was Enter on the command line (command)
ScriptGhost(key) ==
    g' = [CmdGhost(key) EXCEPT
             !.script = Tail(@),
             !.command = IF app.mode = "CommandInput" /\ key.code = "Enter"
                         THEN Some(trim(app.command_input)) ELSE None]

ScriptKey(write_ok) ==
    /\ g.script # <<>>
    /\ IF saves(app, Head(g.script)) THEN TRUE ELSE write_ok
    /\ KeyStepWithin(Head(g.script), write_ok, "poll", MaxScriptKeys)
    /\ ScriptGhost(Head(g.script))

NextScript == \E write_ok \in BOOLEAN : ScriptKey(write_ok)

SpecScript == InitScript /\ [][NextScript]_vars

(***************************************************************************)
(* SpecQuit: sessions that change the buffer, take the changes back (undo, *)
(* redo, :q!), save them (:w, Ctrl-s; the write may fail) and press `q`.   *)
(* Nothing else writes the file, so `file` is the content last saved or    *)
(* loaded.                                                                 *)
(***************************************************************************)
QuitKeys ==
    { Ch(c) : c \in {"x", "u", "i", "q", ":", "w", "!"} }
    \cup { CtrlCh("r"), CtrlCh("s") }
    \cup { Sp("Esc"), Sp("Enter") }

InitQuit == InitWith({<<>>, <<"a">>, <<"a", "a">>, <<"a", NL, "a">>}, "poll")

QuitKey(key, write_ok) ==
    /\ IF saves(app, key) THEN TRUE ELSE write_ok
    /\ KeyStepWithin(key, write_ok, "poll", MaxQuitKeys)
    /\ g' = CmdGhost(key)

NextQuit == \E key \in QuitKeys, write_ok \in BOOLEAN : QuitKey(key, write_ok)

SpecQuit == InitQuit /\ [][NextQuit]_vars

(***************************************************************************)
(* SpecReload: the whole loop of run_app with its environment: the clock,  *)
(* the file on disk, other programs writing it, and the watcher's queue.   *)
(* Time passes while the loop waits in event::poll.                        *)
(***************************************************************************)
ReloadKeys ==
    { Ch(c) : c \in {":", "w", "R", "x", "l", "i", "v"} } \cup { Sp("Enter") }

InitReload == InitWith(Texts(MaxWriteLen), "poll")

\* whether handling `key` reaches request_reload (the `R` arm of
\* handle_normal_mode)
asks(s, key) ==
    /\ s.mode \in {"Normal", "Edit"}
    /\ ~s.replace_pending /\ ~s.register_waiting
    /\ s.pending_op = None
    /\ IsChar(key, "R")

\* whether on_fs_event at time t reaches request_reload
accepts(s, t) ==
    /\ ~s.dirty
    /\ s.mode \notin {"Insert", "VisualChar", "VisualLine", "CommandInput"}
    /\ IF s.suppress_reload_until = None THEN TRUE
       ELSE t >= unwrap_or(s.suppress_reload_until, 0)

\* history: when the last request was accepted (last_req), how many have
\* been accepted since the last reload, counted up to 2 (reqs), how many
\* the last reload answered (answered), when the last save succeeded
Requested == [g EXCEPT !.last_req = Some(now), !.reqs = Min(@ + 1, 2)]

\* event::poll returns a key, which is handled
PollKey(key, write_ok) ==
    /\ IF saves(app, key) THEN TRUE ELSE write_ok
    /\ KeyStep(key, write_ok, "drain")
    /\ g' = IF saves(app, key) /\ write_ok THEN [g EXCEPT !.last_save = Some(now)]
            ELSE IF asks(app, key) THEN Requested
            ELSE g

\* event::poll returns nothing after tick_rate
PollTimeout ==
    /\ pc = "poll"
    /\ ~DrawPanics(app)
    /\ now < MaxTicks * TickMs
    /\ now' = now + TickMs
    /\ app' = drawn(app)
    /\ pc' = "drain"
    /\ UNCHANGED <<file, fsq, nkeys, ev, g, view>>

\* terminal.draw panics on a cursor past the end of the buffer
DrawPanic ==
    /\ pc = "poll"
    /\ DrawPanics(app)
    /\ pc' = "panic"
    /\ ev' = Event("panic", NoKey, FALSE)
    /\ UNCHANGED <<app, file, fsq, now, nkeys, g, view>>

\* the loop takes one message of the watcher from the channel
FsEvent ==
    /\ pc = "drain"
    /\ fsq > 0
    /\ fsq' = fsq - 1
    /\ app' = on_fs_event(app, now)
    /\ g' = IF accepts(app, now) THEN Requested ELSE g
    /\ ev' = Event("fs", NoKey, FALSE)
    /\ UNCHANGED <<file, now, pc, nkeys, view>>

\* the channel is empty: handle_pending_reload, and the loop starts over
PendingReload(outcome) ==
    /\ pc = "drain"
    /\ fsq = 0
    /\ IF reload_due(app, now) THEN TRUE ELSE outcome = "ok"
    /\ app' = handle_pending_reload(app, now, outcome, file)
    /\ g' = IF reload_due(app, now) THEN [g EXCEPT !.answered = g.reqs, !.reqs = 0] ELSE g
    /\ ev' = Event("reload", NoKey, reload_due(app, now))
    /\ pc' = "poll"
    /\ UNCHANGED <<file, fsq, now, nkeys, view>>

\* another program writes the file, and the watcher reports it (a write
\* of the same content stands for the events that change nothing)
ExternalWrite(text) ==
    /\ pc \in {"poll", "drain"}
    /\ fsq < MaxQueue
    /\ file' = text
    /\ fsq' = fsq + 1
    /\ UNCHANGED <<app, now, pc, nkeys, ev, g, view>>

NextReload ==
    \/ \E key \in ReloadKeys, write_ok \in BOOLEAN : PollKey(key, write_ok)
    \/ PollTimeout
    \/ DrawPanic
    \/ FsEvent
    \/ \E outcome \in ReloadOutcomes : PendingReload(outcome)
    \/ \E text \in Texts(MaxWriteLen) : ExternalWrite(text)

SpecReload == InitReload /\ [][NextReload]_vars

(***************************************************************************)
(* SpecPending: the loop going on for ever.  The clock is followed up to   *)
(* MaxTicks * TickMs; readings past it are taken for it, which the program *)
(* cannot tell apart once every deadline it holds has passed: so requests  *)
(* for a reload (R, and writes of other programs) are made early enough    *)
(* for their deadline to lie within the readings followed.  event::poll    *)
(* returns after tick_rate at the latest, the channel is drained and       *)
(* handle_pending_reload is called in every iteration: weak fairness of    *)
(* these three steps.                                                      *)
(***************************************************************************)
PendingKeys == { Ch("R"), Ch("i"), Ch("x") }

PendingFiles == { <<>>, <<"a">> }

InitPending == InitWith(PendingFiles, "poll")

\* whether a request made in the iteration that starts now has its deadline
\* within the readings followed
early == now + TickMs + DebounceMs <= MaxTicks * TickMs

PendingPollKey(key) == early /\ PollKey(key, TRUE)

\* event::poll returns nothing after tick_rate
PollTimeoutOn ==
    /\ pc = "poll"
    /\ ~DrawPanics(app)
    /\ now' = Min(now + TickMs, MaxTicks * TickMs)
    /\ app' = drawn(app)
    /\ pc' = "drain"
    /\ UNCHANGED <<file, fsq, nkeys, ev, g, view>>

\* another program writes the file while the loop waits in event::poll
EarlyWrite(text) == early /\ pc = "poll" /\ ExternalWrite(text)

NextPending ==
    \/ \E key \in PendingKeys : PendingPollKey(key)
    \/ PollTimeoutOn
    \/ DrawPanic
    \/ FsEvent
    \/ \E outcome \in ReloadOutcomes : PendingReload(outcome)
    \/ \E text \in PendingFiles : EarlyWrite(text)

SpecPending ==
    /\ InitPending
    /\ [][NextPending]_vars
    /\ WF_vars(PollTimeoutOn)
    /\ WF_vars(FsEvent)
    /\ WF_vars(\E outcome \in ReloadOutcomes : PendingReload(outcome))

(***************************************************************************)
(* Properties of the editor.                                               *)
(***************************************************************************)

\* C2: for every mutating command issued from Edit mode, a single `u`
\* issued immediately afterwards restores the buffer to exactly the content
\* it had before that command.  (g.cmd_rope is the buffer at the first key
\* of the last command; `u` arrives with nothing pending, right after a
\* command that changed the buffer.)
UndoRestoresPriorBuffer ==
    [][ ( /\ ev'.kind = "key" /\ ev'.key = Ch("u")
          /\ app.mode = "Edit" /\ Idle(app)
          /\ g.cmd_key # Ch("u")
          /\ app.rope # g.cmd_rope )
        => app'.rope = g.cmd_rope ]_vars

\* C3: after every buffer-mutating command and after every undo or redo
\* (a key that changed the buffer, the undo stack or the redo stack),
\* dirty == (buffer content # last-saved content).
DirtyIsRopeDiffersFromSource ==
    [][ ( /\ ev'.kind = "key"
          /\ \/ app'.rope # app.rope
             \/ app'.undo_stack # app.undo_stack
             \/ app'.redo_stack # app.redo_stack )
        => app'.dirty = (app'.rope # app'.source) ]_vars

\* C8: with an operator pending in Edit mode, a next key that is not the
\* operator's letter clears the pending operator and changes neither
\* buffer, cursor, registers nor undo stack.
OtherKeyCancelsOperator ==
    [][ ( /\ ev'.kind = "key"
          /\ app.mode = "Edit"
          /\ app.pending_op # None
          /\ ~same_letter(unwrap_or(app.pending_op, "none"), ev'.key) )
        => /\ app'.pending_op = None
           /\ app'.rope = app.rope
           /\ app'.cursor_char = app.cursor_char
           /\ app'.registers = app.registers
           /\ app'.undo_stack = app.undo_stack ]_vars

\* what C9 says a digit key does in Edit mode
DigitKeyEffect ==
    /\ ev'.key = Ch("0") /\ app.count = None
         => /\ app'.cursor_char =
                 line_to_char(app.rope, char_to_line(app.rope, app.cursor_char))
            /\ app'.count = None
    /\ ev'.key = Ch("0") /\ app.count # None
         => /\ app'.count = Some(10 * unwrap_or(app.count, 0))
            /\ app'.cursor_char = app.cursor_char
    /\ ev'.key \in {Ch("1"), Ch("2")}
         => app'.count = Some(10 * unwrap_or(app.count, 0)
                              + unwrap_or(to_digit(ev'.key.c), 0))

DdRemovesExactlyOneLine ==
    [][ ( /\ ev'.kind = "key" /\ ev'.key = Ch("d")
          /\ app.mode = "Edit"
          /\ app.pending_op = Some("Delete")
          /\ app.count = None
          /\ ~app.replace_pending /\ ~app.register_waiting
          /\ len_lines(app.rope) >= 2 )
        => LET L == char_to_line(app.rope, app.cursor_char)
               N == len_lines(app.rope)
           IN  /\ len_lines(app'.rope) = N - 1
               /\ Lines(app'.rope) =
                    [l \in 1..(N - 1) |->
                        IF l <= L THEN Lines(app.rope)[l] ELSE Lines(app.rope)[l + 1]]
               /\ app'.cursor_char = line_to_char(app'.rope, Min(L, N - 2)) ]_vars

\* C11: with the cursor on line L, yy followed by p leaves all original
\* text in place and inserts one verbatim copy of line L as a complete,
\* separate line directly below L, also when L is the last line and has no
\* trailing newline.  (p arrives right after the second y of yy; stated for
\* a line L that is not empty.)
YankPastePutsLineBelow ==
    [][ ( /\ ev'.kind = "key" /\ ev'.key = Ch("p")
          /\ ev.kind = "key" /\ ev.key = Ch("y")
          /\ g.cmd_key = Ch("y")
          /\ line_len_chars(app.rope, char_to_line(app.rope, app.cursor_char)) > 0
          /\ app.status = Some(format("Yanked {count} line(s)", <<1>>))
          /\ app.mode = "Edit" /\ Idle(app) )
        => LET L == char_to_line(app.rope, app.cursor_char)
               N == len_lines(app.rope)
           IN  Lines(app'.rope) =
                 [l \in 1..(N + 1) |->
                     IF l <= L + 1 THEN Lines(app.rope)[l] ELSE Lines(app.rope)[l - 1]] ]_vars

\* C12: redo applied directly after undo restores the buffer to what it was
\* immediately before the undo, and undo directly after redo likewise; each
\* call moves exactly one snapshot between the two stacks; on an empty
\* stack the call changes nothing.
UndoRedoAreInverse ==
    [][ /\ CallUndo =>
             IF app.undo_stack = <<>> THEN app' = app
             ELSE /\ app'.rope = app.undo_stack[Len(app.undo_stack)]
                  /\ app'.undo_stack = SubSeq(app.undo_stack, 1, Len(app.undo_stack) - 1)
                  /\ app'.redo_stack = Append(app.redo_stack, app.rope)
        /\ CallRedo =>
             IF app.redo_stack = <<>> THEN app' = app
             ELSE /\ app'.rope = app.redo_stack[Len(app.redo_stack)]
                  /\ app'.redo_stack = SubSeq(app.redo_stack, 1, Len(app.redo_stack) - 1)
                  /\ app'.undo_stack = Append(app.undo_stack, app.rope)
        /\ ( CallRedo /\ g.last \in {"undo", "redo_undo"} ) => app'.rope = g.prev_rope
        /\ ( CallUndo /\ g.last \in {"redo", "undo_redo"} ) => app'.rope = g.prev_rope ]_vars

\* C12's case: redo was called directly after an undo that had changed the
\* buffer, and brought the undone content back
RedoDirectlyAfterUndo ==
    /\ ev.kind = "redo" /\ ev.fired
    /\ g.last = "undo_redo"
    /\ app.rope # g.prev_rope
    /\ app.undo_stack # <<>>
    /\ app.undo_stack[Len(app.undo_stack)] = g.prev_rope

\* C13: every push of an undo snapshot by a mutating command empties the
\* redo stack, and after undo followed by a new mutating command (a key
\* that changes the buffer) a redo leaves the buffer unchanged.
RedoAfterNewEditIsNoOp ==
    [][ /\ ( /\ nkeys' = nkeys + 1
             /\ Len(app'.undo_stack) > Len(app.undo_stack) )
          => app'.redo_stack = <<>>
        /\ ( CallRedo /\ g.seq = "um" ) => app'.rope = app.rope ]_vars

\* C21: in VisualChar mode with anchor a and cursor c, d removes exactly
\* the characters at offsets min(a,c)..max(a,c) inclusive (clamped to the
\* buffer end), stores them charwise in the active and the unnamed
\* register, pushes one undo snapshot, sets the cursor to min(a,c) and
\* returns to Edit; in VisualLine mode d removes exactly the whole lines
\* (each with its line break, as Rope::line gives them) from the anchor's
\* line through the cursor's line and stores them linewise.
VisualDeleteRemovesSelection ==
    [][ ( /\ ev'.kind = "key" /\ ev'.key = Ch("d")
          /\ app.mode \in {"VisualChar", "VisualLine"}
          /\ app.visual_anchor # None
          /\ ~app.register_waiting )
        => LET a == app.visual_anchor[1]
               c == app.cursor_char
               lo == IF app.mode = "VisualChar" THEN Min(a, c)
                     ELSE line_to_char(app.rope, char_to_line(app.rope, Min(a, c)))
               hi == IF app.mode = "VisualChar" THEN Min(Max(a, c) + 1, len_chars(app.rope))
                     ELSE line_to_char(app.rope, char_to_line(app.rope, Max(a, c)) + 1)
               reg == [text |-> SubSeq(app.rope, lo + 1, hi),
                       linewise |-> (app.mode = "VisualLine")]
           IN  /\ app'.rope = SubSeq(app.rope, 1, lo) \o SubSeq(app.rope, hi + 1, Len(app.rope))
               /\ app'.registers["\""] = reg
               /\ app'.registers[active_register(app)] = reg
               /\ app'.undo_stack = Append(app.undo_stack, app.rope)
               /\ app'.mode = "Edit"
               /\ app.mode = "VisualChar" => app'.cursor_char = Min(a, c) ]_vars

\* C21's case: d has just removed a selection of more than one character,
\* made with v and a motion
VisualDeleteRemovedSelection ==
    /\ ev.kind = "key" /\ ev.key = Ch("d")
    /\ g.cmd_key = Ch("v")
    /\ app.mode = "Edit" /\ app.pending_op = None
    /\ app.undo_stack # <<>>
    /\ Len(app.registers["\""].text) >= 2
    /\ ~app.registers["\""].linewise
    /\ Len(app.rope) + Len(app.registers["\""].text) = Len(app.undo_stack[1])

\* C22: `.` re-applies the last change with the same primitive and the
\* recorded argument: after x or {n}x it deletes n chars at the cursor,
\* after {n}dd n lines, after r<c> it replaces with c, after p it pastes
\* the recorded text after the cursor and after P before the cursor; after
\* an Insert session it inserts the recorded text one position past the
\* cursor and leaves the cursor on the last inserted character.  (`.`
\* arrives right after the command it repeats, with nothing pending.)
RepeatReappliesLastChange ==
    [][ ( /\ ev'.kind = "key" /\ ev'.key = Ch(".")
          /\ ev.kind = "key"
          /\ app.mode = "Edit" /\ Idle(app) )
        => LET c == app.last_change
               at == app.cursor_char
               ln == char_to_line(app.rope, at)
               len == len_chars(app.rope)
           IN  /\ ( ev.key = Ch("x") /\ g.cmd_key \in {Ch("x"), Ch("1"), Ch("2")}
                    /\ c.tag = "DeleteChars" )
                   => app'.rope = delete_chars(app, c.n).rope
               /\ ( ev.key = Ch("d") /\ c.tag = "DeleteLines" )
                   => app'.rope = delete_lines(app, c.n).rope
               /\ ( g.cmd_key = Ch("r") /\ c.tag = "ReplaceChar" /\ at < len )
                   => app'.rope = [app.rope EXCEPT ![at + 1] = c.c]
               /\ ( ev.key = Ch("p") /\ g.cmd_key = Ch("p") /\ c.tag = "Paste" )
                   => app'.rope =
                        insert(app.rope,
                               IF c.linewise
                               THEN IF ln + 1 >= len_lines(app.rope) THEN len
                                    ELSE line_to_char(app.rope, ln + 1)
                               ELSE Min(at + 1, len),
                               c.text)
               /\ ( ev.key = Ch("P") /\ g.cmd_key = Ch("P") /\ c.tag = "Paste" )
                   => app'.rope =
                        insert(app.rope,
                               IF c.linewise THEN line_to_char(app.rope, ln) ELSE at,
                               c.text)
               /\ ( ev.key = Sp("Esc") /\ c.tag = "Insert" /\ c.text # <<>> )
                   => /\ app'.rope = insert(app.rope, Min(at + 1, len), c.text)
                      /\ app'.cursor_char = Min(at + 1, len) + Len(c.text) - 1 ]_vars

(***************************************************************************)
(* Properties of the command line.  The command executed is the typed text *)
(* trimmed, as handle_command_input passes it to execute_command.          *)
(***************************************************************************)

\* Enter is handled on the command line and executes one of `commands`
Executes(commands) ==
    /\ nkeys' = nkeys + 1
    /\ ev'.key = Sp("Enter")
    /\ app.mode = "CommandInput"
    /\ trim(app.command_input) \in commands

\* C14: :q or :quit while the buffer is dirty does not quit: a status
\* message is set, the mode returns to Edit, and buffer, cursor, dirty
\* flag, last-saved content and undo/redo stacks are unchanged.
DirtyQuitIsRefused ==
    [][ ( Executes({<<"q">>, <<"q", "u", "i", "t">>}) /\ app.dirty )
        => /\ pc' # "quit"
           /\ app'.status =
                Some(to_string("No write since last change (add ! to override)"))
           /\ app'.mode = "Edit"
           /\ app'.rope = app.rope
           /\ app'.cursor_char = app.cursor_char
           /\ app'.dirty
           /\ app'.source = app.source
           /\ app'.undo_stack = app.undo_stack
           /\ app'.redo_stack = app.redo_stack ]_vars

\* C14's case: :q or :quit was just refused on a buffer that differs from
\* the saved text
QuitRefusedOnDirtyBuffer ==
    /\ ev.kind = "key" /\ ev.key = Sp("Enter")
    /\ g.command \in {Some(<<"q">>), Some(<<"q", "u", "i", "t">>)}
    /\ app.dirty /\ app.rope # app.source
    /\ app.undo_stack # <<>>
    /\ app.mode = "Edit"
    /\ pc = "poll"

\* C15: :q or :quit on a clean buffer, and :wq or :x once the save has
\* succeeded, make handle_key report quit, and the event loop terminates.
CleanQuitEndsLoop ==
    [][ /\ ( Executes({<<"q">>, <<"q", "u", "i", "t">>}) /\ ~app.dirty )
          => pc' = "quit"
        /\ ( Executes({<<"w", "q">>, <<"x">>}) /\ ScriptKey(TRUE) )
          => pc' = "quit" ]_vars

\* C16: :q! or :quit! replaces the buffer by the last-saved content, sets
\* dirty to false, leaves the cursor within the buffer, and quits.
ForceQuitDiscardsAndQuits ==
    [][ Executes({<<"q", "!">>, <<"q", "u", "i", "t", "!">>})
        => /\ app'.rope = app.source
           /\ ~app'.dirty
           /\ app'.cursor_char <= len_chars(app'.rope)
           /\ pc' = "quit" ]_vars

\* the commands execute_command is said to know
KnownCommands ==
    { <<"w">>, <<"w", "r", "i", "t", "e">>, <<"w", "!">>, <<"w", "q">>, <<"x">>,
      <<"q">>, <<"q", "u", "i", "t">>, <<"q", "!">>, <<"q", "u", "i", "t", "!">> }

\* C17: a non-empty command other than w, write, w!, wq, x, q, quit, q!,
\* quit! sets the status to 'Not an editor command: <text>', returns to
\* Edit, and leaves buffer, cursor, dirty flag, registers and undo/redo
\* stacks unchanged.
UnknownCommandOnlyReports ==
    [][ ( /\ nkeys' = nkeys + 1
          /\ ev'.key = Sp("Enter")
          /\ app.mode = "CommandInput"
          /\ trim(app.command_input) # <<>>
          /\ trim(app.command_input) \notin KnownCommands )
        => /\ app'.status =
                Some(format("Not an editor command: {cmd}", trim(app.command_input)))
           /\ app'.mode = "Edit"
           /\ pc' # "quit"
           /\ app'.rope = app.rope
           /\ app'.cursor_char = app.cursor_char
           /\ app'.dirty = app.dirty
           /\ app'.source = app.source
           /\ app'.registers = app.registers
           /\ app'.undo_stack = app.undo_stack
           /\ app'.redo_stack = app.redo_stack ]_vars

\* C17's case: `:e ` was executed on a modified buffer with a register set
\* and reported as `e`
UnknownCommandReported ==
    /\ ev.kind = "key" /\ ev.key = Sp("Enter")
    /\ g.command = Some(<<"e">>)
    /\ app.status = Some(format("Not an editor command: {cmd}", <<"e">>))
    /\ app.dirty
    /\ app.undo_stack # <<>>
    /\ app.mode = "Edit"

\* C18: when writing the file fails, the save leaves buffer, last-saved
\* content, dirty flag, undo/redo stacks and the reload-suppression window
\* unchanged and only sets a 'Save failed' status; :wq and :x on a dirty
\* buffer then do not quit and lose nothing.  (The saves are those of :w,
\* :write, :w!, Ctrl-s in Insert mode, and :wq and :x on a dirty buffer.)
FailedSaveOnlyReports ==
    [][ ( /\ ScriptKey(FALSE) /\ saves(app, ev'.key)
          /\ IF Executes({<<"w", "q">>, <<"x">>}) THEN app.dirty ELSE TRUE )
        => /\ app'.status = Some(format("Save failed: {err}", err))
           /\ app'.rope = app.rope
           /\ app'.source = app.source
           /\ app'.dirty = app.dirty
           /\ app'.undo_stack = app.undo_stack
           /\ app'.redo_stack = app.redo_stack
           /\ app'.suppress_reload_until = app.suppress_reload_until
           /\ file' = file
           /\ pc' # "quit"
           /\ app.mode = "CommandInput" => app'.mode = "Edit" ]_vars

\* C18's case: :wq or :x has just failed to write a modified buffer, which
\* is still there, still dirty, with its undo history
SaveQuitFailedOnDirtyBuffer ==
    /\ ev.kind = "key" /\ ev.key = Sp("Enter")
    /\ g.command \in {Some(<<"w", "q">>), Some(<<"x">>)}
    /\ app.status = Some(format("Save failed: {err}", err))
    /\ app.dirty /\ app.rope # app.source /\ app.rope # file
    /\ app.undo_stack # <<>>
    /\ app.mode = "Edit"
    /\ pc = "poll"

\* C20: visual_anchor is set exactly when the mode is VisualChar or
\* VisualLine; in every other mode, CommandInput entered with `:` from a
\* Visual mode and the Edit mode reached from it included, no anchor
\* remains.
AnchorOnlyInVisualModes ==
    (app.visual_anchor # None) <=> (app.mode \in {"VisualChar", "VisualLine"})

(***************************************************************************)
(* Properties of reloading.                                                *)
(***************************************************************************)

\* C1: after any sequence of key events, filesystem events and reloads the
\* edit cursor satisfies 0 <= cursor_char <= buffer length in chars.
CursorWithinBuffer ==
    /\ 0 <= app.cursor_char
    /\ app.cursor_char <= len_chars(app.rope)

\* C4: if a reload is pending and the buffer is dirty when its deadline
\* has passed, handle_pending_reload skips the reload: the buffer is not
\* replaced and the unsaved edits and the undo history survive.
DirtyBufferSurvivesPendingReload ==
    [][ \A outcome \in ReloadOutcomes :
          ( /\ PendingReload(outcome)
            /\ app.reload.pending
            /\ app.dirty
            /\ now >= unwrap_or(app.reload.deadline, 0) )
          => /\ app'.rope = app.rope
             /\ app'.dirty
             /\ app'.undo_stack = app.undo_stack
             /\ app'.redo_stack = app.redo_stack ]_vars

\* C5: an fs event handled while dirty, or in Insert, VisualChar,
\* VisualLine or CommandInput, sets a status message and changes nothing
\* else: reload.pending, the deadline and the buffer stay as they are.
IgnoredFsEventSetsOnlyStatus ==
    [][ ( /\ FsEvent
          /\ \/ app.dirty
             \/ app.mode \in {"Insert", "VisualChar", "VisualLine", "CommandInput"} )
        => app' = [app EXCEPT !.status = Some(to_string("External change ignored (editing)"))] ]_vars

\* C5's case: an fs event was ignored on a dirty buffer in Edit mode while
\* a reload was pending, and the reload is still pending
FsEventIgnoredWhileDirty ==
    /\ ev.kind = "fs"
    /\ app.status = Some(to_string("External change ignored (editing)"))
    /\ app.dirty
    /\ app.mode = "Edit"
    /\ app.reload.pending

\* C6: reload_file is executed only at or past the deadline 150 ms after
\* the most recent accepted request; a request accepted while a reload is
\* pending only moves the deadline; a burst of accepted requests results
\* in exactly one reload (a reload answers at least one request, and is
\* not put off once the deadline of the last one is reached).
ReloadOncePerBurstAtDeadline ==
    [][ /\ ( /\ pc = "drain" /\ pc' = "poll"
             /\ app.reload.pending /\ ~app'.reload.pending )
          => /\ g.reqs >= 1
             /\ g.last_req # None
             /\ now >= unwrap_or(g.last_req, 0) + DebounceMs
        /\ ( /\ pc = "drain" /\ pc' = "poll"
             /\ g.reqs >= 1
             /\ now >= unwrap_or(g.last_req, 0) + DebounceMs )
          => /\ ~app'.reload.pending
             /\ app'.status \in {Some(to_string("Reloaded")), Some(format("Failed to reload: {err}", err)), Some(format("Parse error: {err}", err))}
        /\ ( FsEvent /\ accepts(app, now) /\ app.reload.pending )
          => app' = [app EXCEPT !.reload.deadline = Some(now + DebounceMs),
                                !.suppress_reload_until = None]
        /\ ( /\ nkeys' = nkeys + 1 /\ ev'.key = Ch("R")
             /\ asks(app, ev'.key) /\ app.reload.pending )
          => /\ app'.reload = [pending |-> TRUE, deadline |-> Some(now + DebounceMs)]
             /\ app'.rope = app.rope
             /\ app'.source = app.source
             /\ app'.undo_stack = app.undo_stack ]_vars

\* C6's case: a reload has just run, and it answered a burst of more than
\* one accepted request
ReloadAnsweredBurst ==
    /\ ev.kind = "reload" /\ ev.fired
    /\ pc = "poll"
    /\ app.status = Some(to_string("Reloaded"))
    /\ g.answered = 2
    /\ ~app.reload.pending

\* C7: an fs event handled less than 300 ms after a successful save, with
\* the buffer clean in Edit mode, neither sets reload.pending nor moves the
\* deadline; the first event handled after the window schedules a reload.
SaveWindowSuppressesReload ==
    [][ /\ ( /\ FsEvent
             /\ g.last_save # None
             /\ now < unwrap_or(g.last_save, 0) + SuppressMs
             /\ ~app.dirty /\ app.mode = "Edit" )
          => app' = app
        /\ ( /\ FsEvent
             /\ g.last_save # None
             /\ now >= unwrap_or(g.last_save, 0) + SuppressMs
             /\ ~app.dirty /\ app.mode = "Edit" )
          => /\ app'.reload = [pending |-> TRUE, deadline |-> Some(now + DebounceMs)]
             /\ app'.suppress_reload_until = None ]_vars

\* C7's case: an fs event was handled inside the window of a save, on a
\* clean buffer in Edit mode, and no reload is pending
FsEventInsideSaveWindow ==
    /\ ev.kind = "fs"
    /\ g.last_save # None
    /\ now < unwrap_or(g.last_save, 0) + SuppressMs
    /\ ~app.dirty /\ app.mode = "Edit"
    /\ app.status = Some(to_string("Saved"))
    /\ ~app.reload.pending

\* C19: when re-reading or re-parsing the file fails during a reload, the
\* buffer, last-saved content, cursor, undo/redo stacks and the rendered
\* document are unchanged and only a status message is set (the reload is
\* no longer pending; nothing else of the App changes).
FailedReloadOnlyReports ==
    [][ \A outcome \in {"read_err", "parse_err"} :
          ( PendingReload(outcome) /\ reload_due(app, now) )
          => /\ app'.status =
                  IF outcome = "read_err"
                  THEN Some(format("Failed to reload: {err}", err))
                  ELSE Some(format("Parse error: {err}", err))
             /\ app'.rope = app.rope
             /\ app'.source = app.source
             /\ app'.cursor_char = app.cursor_char
             /\ app'.undo_stack = app.undo_stack
             /\ app'.redo_stack = app.redo_stack
             /\ app'.parsed = app.parsed
             /\ app'.render_dirty = app.render_dirty
             /\ app' = [app EXCEPT !.status = app'.status,
                                   !.reload = [pending |-> FALSE, deadline |-> None]] ]_vars

\* C19's case: the reload of a file that had changed on disk has just
\* failed to parse it, on a modified buffer with an undo history
FailedReloadOfChangedFile ==
    /\ ev.kind = "reload" /\ ev.fired
    /\ app.status = Some(format("Parse error: {err}", err))
    /\ file # app.rope /\ file # app.source
    /\ app.rope # app.source
    /\ app.undo_stack # <<>>
    /\ pc = "poll" /\ fsq = 0


(***************************************************************************)
(* The renderer (markdown.rs).  A text is a sequence of chars; offsets     *)
(* count from 0.  The chars of the renderer's inputs are ASCII letters,    *)
(* the space, and "W", which stands for a char two columns wide.           *)
(***************************************************************************)
\* str::to_ascii_lowercase, on the letters of the inputs
to_ascii_lowercase(text) ==
    [i \in 1..Len(text) |->
        CASE text[i] = "A" -> "a"
          [] text[i] = "C" -> "c"
          [] text[i] = "T" -> "t"
          [] OTHER -> text[i]]

\* does `needle` occur in `hay` at offset `at`
occurs_at(hay, needle, at) ==
    /\ at + Len(needle) <= Len(hay)
    /\ SubSeq(hay, at + 1, at + Len(needle)) = needle

\* str::find: the offset of the first occurrence
find(hay, needle) ==
    LET at == {i \in 0..Len(hay) : occurs_at(hay, needle, i)}
    IN  IF at = {} THEN None ELSE Some(CHOOSE i \in at : \A j \in at : i <= j)

Match(line_idx, start, end) == [line |-> line_idx, start |-> start, end |-> end]

\* the scan of one line, had it resumed one char after a match's start
RECURSIVE scan_overlapping(_, _, _, _)
scan_overlapping(hay, needle, line_idx, cursor) ==
    IF cursor >= Len(hay) THEN <<>>
    ELSE LET found == find(SubSeq(hay, cursor + 1, Len(hay)), needle)
         IN  IF found = None THEN <<>>
             ELSE LET start == cursor + found[1]
                      end == start + Len(needle)
                  IN  <<Match(line_idx, start, end)>>
                      \o scan_overlapping(hay, needle, line_idx, start + 1)

\* find_matches' scan of one line from `cursor` on (the while loop)
RECURSIVE scan(_, _, _, _)
scan(hay, needle, line_idx, cursor) ==
    IF cursor >= Len(hay) THEN <<>>
    ELSE LET found == find(SubSeq(hay, cursor + 1, Len(hay)), needle)
         IN  IF found = None THEN <<>>
             ELSE LET start == cursor + found[1]
                      end == start + Len(needle)
                  IN  <<Match(line_idx, start, end)>>
                      \o scan(hay, needle, line_idx, end)

RECURSIVE scan_lines(_, _, _, _)
scan_lines(lines, needle, case_sensitive, line_idx) ==
    IF line_idx >= Len(lines) THEN <<>>
    ELSE LET ln == lines[line_idx + 1]
             hay == IF case_sensitive THEN ln ELSE to_ascii_lowercase(ln)
         IN  scan(hay, needle, line_idx, 0)
             \o scan_lines(lines, needle, case_sensitive, line_idx + 1)

find_matches(lines, query, case_sensitive) ==
    LET needle == IF case_sensitive THEN query ELSE to_ascii_lowercase(query)
    IN  IF needle = <<>> THEN <<>> ELSE scan_lines(lines, needle, case_sensitive, 0)

\* build_match_map's merge of the ranges of one line, sorted by start: a
\* range that starts at or before the end of the last one extends it
RECURSIVE merge_ranges(_, _)
merge_ranges(merged, ranges) ==
    IF ranges = <<>> THEN merged
    ELSE IF merged # <<>> /\ ranges[1].start <= merged[Len(merged)].end
    THEN merge_ranges([merged EXCEPT ![Len(merged)].end = Max(@, ranges[1].end)], Tail(ranges))
    ELSE merge_ranges(Append(merged, ranges[1]), Tail(ranges))

\* build_match_map, for line `idx` (find_matches gives the matches of a
\* line in the order of their starts)
RECURSIVE matches_of_line(_, _)
matches_of_line(matches, idx) ==
    IF matches = <<>> THEN <<>>
    ELSE (IF matches[1].line = idx
          THEN <<[start |-> matches[1].start, end |-> matches[1].end]>> ELSE <<>>)
         \o matches_of_line(Tail(matches), idx)

build_match_map(matches, idx) == merge_ranges(<<>>, matches_of_line(matches, idx))

\* apply_highlight, had it pushed nothing of a span after its last range
rest_dropped(text, local_idx) == <<>>

\* apply_highlight: what is left of a span after its last range
rest_of_span(text, local_idx) ==
    IF local_idx < Len(text) THEN <<SubSeq(text, local_idx + 1, Len(text))>> ELSE <<>>

\* apply_highlight's loop over the ranges that meet a span: the text before
\* a range, then the text of the range (reversed), and what is left
RECURSIVE highlight_span(_, _, _, _)
highlight_span(text, span_start, ranges, local_idx) ==
    IF ranges = <<>> THEN rest_of_span(text, local_idx)
    ELSE IF ~(ranges[1].end > span_start /\ ranges[1].start < span_start + Len(text))
    THEN highlight_span(text, span_start, Tail(ranges), local_idx)
    ELSE LET local_start == Max(ranges[1].start, span_start) - span_start
             local_end == Min(ranges[1].end, span_start + Len(text)) - span_start
         IN  (IF local_start > local_idx
              THEN <<SubSeq(text, local_idx + 1, local_start)>> ELSE <<>>)
             \o <<SubSeq(text, local_start + 1, local_end)>>
             \o highlight_span(text, span_start, Tail(ranges), local_end)

RECURSIVE highlight_spans(_, _, _)
highlight_spans(spans, ranges, cursor) ==
    IF spans = <<>> THEN <<>>
    ELSE highlight_span(spans[1], cursor, ranges, 0)
         \o highlight_spans(Tail(spans), ranges, cursor + Len(spans[1]))

apply_highlight(spans, ranges) ==
    IF ranges = <<>> THEN spans ELSE highlight_spans(spans, ranges, 0)

\* UnicodeWidthChar::width and UnicodeWidthStr::width
char_width(c) == IF c = "W" THEN 2 ELSE 1
\* the sum of the widths of the chars
str_width(text) == Len(text) + Cardinality({i \in 1..Len(text) : char_width(text[i]) = 2})

\* Line spans' contents, joined
RECURSIVE line_to_plain(_)
line_to_plain(spans) == IF spans = <<>> THEN <<>> ELSE spans[1] \o line_to_plain(Tail(spans))

\* the tokens of one span: maximal runs of whitespace and of other chars
RECURSIVE tokenize_span(_)
tokenize_span(text) ==
    IF text = <<>> THEN <<>>
    ELSE LET ws == is_whitespace(text[1])
             n == CHOOSE k \in 1..Len(text) :
                      /\ \A i \in 1..k : is_whitespace(text[i]) = ws
                      /\ k = Len(text) \/ is_whitespace(text[k + 1]) # ws
         IN  <<[text |-> SubSeq(text, 1, n), is_whitespace |-> ws]>>
             \o tokenize_span(SubSeq(text, n + 1, Len(text)))

\* a Line is the sequence of its spans' contents (the lines here have no
\* background colour, so that nothing is filled)
RECURSIVE tokenize_line(_)
tokenize_line(spans) ==
    IF spans = <<>> THEN <<>> ELSE tokenize_span(spans[1]) \o tokenize_line(Tail(spans))

\* str::trim_end_matches(' ')
RECURSIVE trim_end_spaces(_)
trim_end_spaces(text) ==
    IF text # <<>> /\ text[Len(text)] = " "
    THEN trim_end_spaces(SubSeq(text, 1, Len(text) - 1)) ELSE text

\* wrap_line, had it kept the spaces at the end of a line
trim_trailing_ws_keeps(spans) == spans

RECURSIVE trim_trailing_ws(_)
trim_trailing_ws(spans) ==
    IF spans = <<>> THEN spans
    ELSE LET last == spans[Len(spans)]
             trimmed == trim_end_spaces(last)
         IN  IF Len(trimmed) = Len(last) THEN spans
             ELSE IF trimmed = <<>> THEN trim_trailing_ws(SubSeq(spans, 1, Len(spans) - 1))
             ELSE [spans EXCEPT ![Len(spans)] = trimmed]

\* wrap_line's closure push_current, on the loop's state
push_current(st) ==
    IF st.current = <<>> THEN [st EXCEPT !.out = Append(@, << <<>> >>)]
    ELSE [st EXCEPT !.out = Append(@, trim_trailing_ws(st.current)), !.current = <<>>]

\* the chars that the loop of lines 563-577 puts in its buffer before it
\* pushes the buffer: the first one, and those that follow as long as the
\* width is not exceeded (a char is one column wide or more)
fitting(chars, width) ==
    CHOOSE k \in 1..Len(chars) :
        /\ k = 1 \/ str_width(SubSeq(chars, 1, k)) <= width
        /\ k = Len(chars) \/ str_width(SubSeq(chars, 1, k + 1)) > width

\* a token wider than the line, cut char by char (lines 563-577), a
\* buffer at a time: `out` the buffers pushed, `buf` the one left
RECURSIVE break_token(_, _, _)
break_token(chars, width, out) ==
    IF chars = <<>> THEN [out |-> out, buf |-> <<>>, buf_width |-> 0]
    ELSE IF fitting(chars, width) = Len(chars)
    THEN [out |-> out, buf |-> chars, buf_width |-> str_width(chars)]
    ELSE break_token(SubSeq(chars, fitting(chars, width) + 1, Len(chars)), width,
                     Append(out, <<SubSeq(chars, 1, fitting(chars, width))>>))

\* one turn of wrap_line's loop over the tokens
wrap_token(st, token, width) ==
    LET w == str_width(token.text)
        pushed == [push_current(st) EXCEPT !.current_width = 0]
    IN  IF token.is_whitespace
        THEN IF st.current = <<>> THEN st
             ELSE IF st.current_width + w > width THEN pushed
             ELSE [st EXCEPT !.current = Append(@, token.text), !.current_width = @ + w]
        ELSE IF w <= width
        THEN LET s1 == IF st.current_width + w > width /\ st.current # <<>> THEN pushed ELSE st
             IN  [s1 EXCEPT !.current = Append(@, token.text), !.current_width = @ + w]
        ELSE LET s1 == IF st.current # <<>> THEN pushed ELSE st
                 b == break_token(token.text, width, <<>>)
             IN  IF b.buf # <<>>
                 THEN [out |-> s1.out \o b.out, current |-> Append(s1.current, b.buf),
                       current_width |-> b.buf_width]
                 ELSE [s1 EXCEPT !.out = @ \o b.out]

RECURSIVE wrap_tokens(_, _, _)
wrap_tokens(st, tokens, width) ==
    IF tokens = <<>> THEN st
    ELSE wrap_tokens(wrap_token(st, tokens[1], width), Tail(tokens), width)

wrap_line(spans, width) ==
    IF width = 0 THEN <<spans>>
    ELSE LET tokens == tokenize_line(spans)
         IN  IF tokens = <<>> THEN << << <<>> >> >>
             ELSE push_current(wrap_tokens([out |-> <<>>, current |-> <<>>, current_width |-> 0],
                                           tokens, width)).out

\* the largest member of a set of naturals (Iterator::max; 0 for unwrap_or(0))
MaxOf(set) == IF set = {} THEN 0 ELSE CHOOSE m \in set : \A n \in set : n <= m

\* table_border_line: the joints tell the borders apart (top for the
\* corners of the first line, separator for the tees, bottom for the
\* corners of the last line), the widths give its segments
table_border_line(widths, joints) == [kind |-> "border", joints |-> joints, widths |-> widths]

\* table_row_line: one cell per column (a missing cell is empty), drawn in
\* the style of a header or of the body
table_row_line(row, widths, cell_style) ==
    [kind |-> "row",
     cells |-> [idx \in 1..Len(widths) |-> IF idx <= Len(row.cells) THEN row.cells[idx] ELSE <<>>],
     style |-> cell_style]

\* the rows at the head of the table that carry the header flag
RECURSIVE leading_headers(_)
leading_headers(rows) ==
    IF rows # <<>> /\ rows[1].is_header THEN 1 + leading_headers(Tail(rows)) ELSE 0

\* render_table, had it taken the header flags alone
header_len_of_flags(table) == leading_headers(table.rows)

\* header_len (lines 712-724)
header_len_of(table) ==
    LET header_len == leading_headers(table.rows)
    IN  IF header_len = 0 /\ table.saw_head /\ table.rows # <<>> THEN 1 ELSE header_len

render_table(table, raw_lines) ==
    LET rows == table.rows
        column_count == MaxOf({Len(rows[r].cells) : r \in 1..Len(rows)})
        widths == [idx \in 1..column_count |->
                      MaxOf({str_width(rows[r].cells[idx]) :
                                r \in {q \in 1..Len(rows) : idx <= Len(rows[q].cells)}})]
        header_len == header_len_of(table)
    IN  IF rows = <<>> \/ column_count = 0 THEN raw_lines
        ELSE raw_lines
             \o <<table_border_line(widths, "top")>>
             \o [r \in 1..Min(header_len, Len(rows)) |-> table_row_line(rows[r], widths, "table_header")]
             \o (IF header_len > 0 /\ header_len < Len(rows)
                 THEN <<table_border_line(widths, "separator")>> ELSE <<>>)
             \o [r \in 1..(Len(rows) - Min(header_len, Len(rows))) |->
                    table_row_line(rows[r + header_len], widths, "base")]
             \o <<table_border_line(widths, "bottom")>>

(***************************************************************************)
(* The preview: where the edit cursor is in the rendered document, and     *)
(* back (app.rs).  The operators take an App, of which they read and       *)
(* write the fields rope, cursor_char, preferred_col, rendered (with its   *)
(* plain_lines, headings and matches), render_cursor_line, scroll,         *)
(* current_match and show_preview.                                         *)
(***************************************************************************)
\* the search window of find_best_rendered_match, in rendered lines
window == 200

\* a value under a name: `let name = value` followed by F(name)
With(value, F(_)) == F(value)

\* the char U+0060, which opens code spans and code fences
BackTick == "bt"

is_ascii_digit(c) == \E i \in 1..Len(DigitChars) : DigitChars[i] = c

starts_with(text, prefix) ==
    Len(text) >= Len(prefix) /\ SubSeq(text, 1, Len(prefix)) = prefix

\* chars of `text` before the first `c` (all of them when there is none)
until(text, c) ==
    IF \E i \in 1..Len(text) : text[i] = c
    THEN (CHOOSE i \in 1..Len(text) : text[i] = c /\ \A j \in 1..(i - 1) : text[j] # c) - 1
    ELSE Len(text)

\* slice_chars
slice_chars(text, start, end) ==
    SubSeq(text, start + 1, Min(Max(end, start), Len(text)))

\* the block quote markers at the head of a line (lines 2447-2454)
RECURSIVE strip_quotes(_)
strip_quotes(s) ==
    LET t == trim_start(s)
    IN  IF t # <<>> /\ t[1] = ">" THEN strip_quotes(trim_start(Tail(t))) ELSE s

RECURSIVE trim_end_hashes(_)
trim_end_hashes(text) ==
    IF text # <<>> /\ text[Len(text)] = "#"
    THEN trim_end_hashes(SubSeq(text, 1, Len(text) - 1)) ELSE text

strip_list_marker(s) ==
    IF \E m \in {"-", "*", "+"} : starts_with(s, <<m, " ">>) THEN Some(SubSeq(s, 3, Len(s)))
    ELSE LET end_digits == IF \E i \in 1..Len(s) : ~is_ascii_digit(s[i])
                           THEN (CHOOSE i \in 1..Len(s) :
                                    /\ ~is_ascii_digit(s[i])
                                    /\ \A j \in 1..(i - 1) : is_ascii_digit(s[j])) - 1
                           ELSE Len(s)
             rest == SubSeq(s, end_digits + 1, Len(s))
         IN  IF end_digits > 0 /\ \E m \in {".", ")"} : starts_with(rest, <<m, " ">>)
             THEN Some(SubSeq(rest, 3, Len(rest)))
             ELSE None

\* strip_line_prefix, had it taken no line for a code fence
is_fence_never(text) == FALSE

\* the line opens or closes a code block (lines 2443-2445)
is_fence(text) ==
    starts_with(text, <<BackTick, BackTick, BackTick>>) \/ starts_with(text, <<"~", "~", "~">>)

strip_line_prefix(ln) ==
    LET s0 == trim_start(ln)
        s == strip_quotes(s0)
        hashes == IF \A i \in 1..Len(s) : s[i] = "#" THEN Len(s)
                  ELSE (CHOOSE i \in 1..Len(s) :
                           s[i] # "#" /\ \A j \in 1..(i - 1) : s[j] = "#") - 1
    IN  IF is_fence(s0) THEN <<>>
        ELSE IF hashes > 0 /\ hashes <= 6
        THEN trim_end(trim_end_hashes(trim_end(trim_start(SubSeq(s, hashes + 1, Len(s))))))
        ELSE IF strip_list_marker(s) # None THEN strip_list_marker(s)[1]
        ELSE s

\* what follows a `[`: the link's text is kept, its (target) is dropped
link_text(rest) == SubSeq(rest, 1, until(rest, "]"))
after_link(rest) ==
    LET after == SubSeq(rest, until(rest, "]") + 2, Len(rest))
    IN  IF after # <<>> /\ after[1] = "("
        THEN SubSeq(after, until(after, ")") + 2, Len(after))
        ELSE after

\* the chars that strip_inline_markdown's match tells from the others
is_markup(ch) == ch \in {"\\", BackTick, "*", "_", "~", "[", "!"}

\* the chars of `text` before its first markup char (all without one)
plain_prefix(text) ==
    LET at == {i \in 1..Len(text) : is_markup(text[i])}
    IN  IF at = {} THEN Len(text) ELSE (CHOOSE i \in at : \A j \in at : i <= j) - 1

\* the loop of strip_inline_markdown, a run of plain chars at a time
RECURSIVE strip_inline_markdown(_)
strip_inline_markdown(text) ==
    IF text = <<>> THEN <<>>
    ELSE IF plain_prefix(text) > 0
    THEN SubSeq(text, 1, plain_prefix(text))
         \o strip_inline_markdown(SubSeq(text, plain_prefix(text) + 1, Len(text)))
    ELSE LET ch == text[1]
             rest == Tail(text)
         IN  IF ch = "\\" THEN IF rest = <<>> THEN <<>>
                               ELSE <<rest[1]>> \o strip_inline_markdown(Tail(rest))
             ELSE IF ch \in {BackTick, "*", "_", "~"} THEN strip_inline_markdown(rest)
             ELSE IF ch = "[" THEN link_text(rest) \o strip_inline_markdown(after_link(rest))
             ELSE IF ch = "!" /\ rest # <<>> /\ rest[1] = "["
             THEN link_text(Tail(rest)) \o strip_inline_markdown(after_link(Tail(rest)))
             ELSE <<ch>> \o strip_inline_markdown(rest)

\* a line of the rope without its line break
RECURSIVE trim_end_newline(_)
trim_end_newline(ln) ==
    IF ln # <<>> /\ ln[Len(ln)] \in {NL, "\r"}
    THEN trim_end_newline(SubSeq(ln, 1, Len(ln) - 1)) ELSE ln

normalize_markdown_line(ln) ==
    trim(strip_inline_markdown(strip_line_prefix(trim_end_newline(ln))))

normalize_prefix_for_col(ln, col) ==
    Len(strip_inline_markdown(strip_line_prefix(slice_chars(ln, 0, col))))

\* str::split_whitespace
split_whitespace(text) ==
    LET tokens == tokenize_span(text)
        words == {i \in 1..Len(tokens) : ~tokens[i].is_whitespace}
        nth(k) == CHOOSE i \in words : Cardinality({j \in words : j <= i}) = k
    IN  [k \in 1..Cardinality(words) |-> tokens[nth(k)].text]

\* Iterator::max_by_key(len): the last of the longest
longest_word(words) ==
    CHOOSE i \in 1..Len(words) :
        /\ \A j \in 1..Len(words) : Len(words[j]) <= Len(words[i])
        /\ \A j \in (i + 1)..Len(words) : Len(words[j]) < Len(words[i])

\* a sequence without the repetitions of its elements (lines 2407-2413)
RECURSIVE unique(_)
unique(seq) ==
    IF seq = <<>> THEN <<>>
    ELSE LET init == unique(SubSeq(seq, 1, Len(seq) - 1))
             cand == seq[Len(seq)]
         IN  IF \E i \in 1..Len(init) : init[i] = cand THEN init ELSE Append(init, cand)

build_match_candidates(ln, at_col) ==
    With(trim(ln), LAMBDA trimmed :
    With(Min(at_col, Len(trimmed)), LAMBDA col :
    With(slice_chars(trimmed, saturating_sub(col, 8), Min(col + 8, Len(trimmed))), LAMBDA snippet :
    With(split_whitespace(trimmed), LAMBDA words :
        IF trimmed = <<>> THEN <<>>
        ELSE unique(
               (IF trim(snippet) # <<>> THEN <<snippet>> ELSE <<>>)
            \o (IF words # <<>> /\ Len(words[longest_word(words)]) >= 4
                THEN <<words[longest_word(words)]>> ELSE <<>>)
            \o (IF Len(trimmed) > 24 THEN <<slice_chars(trimmed, 0, 24)>> ELSE <<>>)
            \o <<trimmed>> )))))

\* match_line: the length of the longest candidate the line contains, and
\* where the first candidate of that length is found
match_line(ln, candidates) ==
    With({i \in 1..Len(candidates) : candidates[i] # <<>> /\ find(ln, candidates[i]) # None},
         LAMBDA hits :
    With(MaxOf({Len(candidates[i]) : i \in hits}), LAMBDA best_len :
        IF hits = {} THEN None
        ELSE Some(<<best_len,
                    Some(find(ln, candidates[CHOOSE i \in hits :
                                    /\ Len(candidates[i]) = best_len
                                    /\ \A j \in hits : Len(candidates[j]) = best_len => i <= j])[1])>>)))

\* the distance of a line from the anchor
dist(idx, anchor) == IF idx > anchor THEN idx - anchor ELSE anchor - idx

\* the score of a hit, had the matched length counted as much as a line
score_by_length(at, len) == at - len * 1000

\* the score of a hit (line 1246, and line 1307)
score(at, len) == at * 1000 - len

\* the first of the lines of lowest score among the hits of a range
\* (lines 1236-1255: a later hit replaces the best one only with a strictly
\* lower score); found[idx] is what match_line returns for line idx
best_hit(hits, anchor, found) ==
    CHOOSE idx \in hits :
        \A j \in hits :
            \/ score(dist(idx, anchor), found[idx][1][1]) < score(dist(j, anchor), found[j][1][1])
            \/ /\ score(dist(idx, anchor), found[idx][1][1]) = score(dist(j, anchor), found[j][1][1])
               /\ idx <= j

\* the lines start..end-1 that contain a candidate
hits_in(found, start, end) == {idx \in start..(end - 1) : found[idx] # None}

find_best_rendered_match(s, candidates, anchor0) ==
    With(s.rendered.plain_lines, LAMBDA plain_lines :
    With(Len(plain_lines), LAMBDA total :
    With(Min(anchor0, total - 1), LAMBDA anchor :
    With([idx \in 0..(total - 1) |-> match_line(plain_lines[idx + 1], candidates)], LAMBDA found :
    With(hits_in(found, saturating_sub(anchor, window), Min(anchor + window + 1, total)),
         LAMBDA near :
    With(IF near # {} THEN near ELSE hits_in(found, 0, total), LAMBDA range :
        IF candidates = <<>> \/ total = 0 \/ range = {} THEN None
        ELSE With(best_hit(range, anchor, found), LAMBDA best :
                 Some(<<best, found[best][1][2]>>))))))))

\* the cursor's line in the rope, without its line break
cursor_line_str(s) == trim_end_newline(line(s.rope, cursor_line(s)))

compute_rendered_cursor_line_col(s, anchor0) ==
    With(s.rendered.plain_lines, LAMBDA plain_lines :
    With(cursor_line_str(s), LAMBDA line_str :
    With(normalize_markdown_line(line_str), LAMBDA normalized :
    With(normalize_prefix_for_col(line_str, cursor_col(s)), LAMBDA visible_col :
    With(Min(anchor0, saturating_sub(Len(plain_lines), 1)), LAMBDA anchor :
        IF plain_lines = <<>> THEN None
        ELSE IF trim(normalized) = <<>> THEN Some(<<anchor, 0>>)
        ELSE With(find_best_rendered_match(s, build_match_candidates(normalized, visible_col),
                                           anchor), LAMBDA hit :
             With(Min(cursor_line(s), saturating_sub(Len(plain_lines), 1)), LAMBDA fallback :
                 IF hit # None
                 THEN Some(<<hit[1][1],
                             Min(unwrap_or(hit[1][2], visible_col),
                                 Len(plain_lines[hit[1][1] + 1]))>>)
                 ELSE Some(<<fallback, Min(visible_col, Len(plain_lines[fallback + 1]))>>))))))))

find_source_line_for_text(s, text, anchor0) ==
    With(build_match_candidates(trim(text), 0), LAMBDA candidates :
    With(Lines(s.rope), LAMBDA lines :
    With([idx \in 0..(Len(lines) - 1) |->
             match_line(normalize_markdown_line(lines[idx + 1]), candidates)], LAMBDA found :
    With(hits_in(found, 0, Len(lines)), LAMBDA all :
        IF trim(text) = <<>> \/ candidates = <<>> \/ lines = <<>> \/ all = {} THEN None
        ELSE Some(best_hit(all, Min(anchor0, saturating_sub(Len(lines), 1)), found))))))

\* move_cursor_to_rendered_line, had it gone to the first source line when
\* none is found
moved_to_start(s, rendered_line, src_line) ==
    [s EXCEPT !.cursor_char = line_to_char(s.rope, unwrap_or(src_line, 0)),
              !.preferred_col = None,
              !.render_cursor_line = Some(rendered_line)]

\* move_cursor_to_rendered_line, once the source line is looked up
moved_to(s, rendered_line, src_line) ==
    IF src_line = None THEN s
    ELSE [s EXCEPT !.cursor_char = line_to_char(s.rope, src_line[1]),
                   !.preferred_col = None,
                   !.render_cursor_line = Some(rendered_line)]

move_cursor_to_rendered_line(s, rendered_line) ==
    IF rendered_line >= Len(s.rendered.plain_lines) THEN s
    ELSE moved_to(s, rendered_line,
                  find_source_line_for_text(s, s.rendered.plain_lines[rendered_line + 1],
                                            char_to_line(s.rope, s.cursor_char)))

set_rendered_cursor_line(s, ln) ==
    IF s.rendered.plain_lines = <<>> THEN s
    ELSE With(Min(ln, Len(s.rendered.plain_lines) - 1), LAMBDA target :
             move_cursor_to_rendered_line([s EXCEPT !.render_cursor_line = Some(target)], target))

update_render_cursor_line(s) ==
    IF s.rendered.plain_lines = <<>> THEN s
    ELSE With(compute_rendered_cursor_line_col(s, unwrap_or(s.render_cursor_line, s.scroll)),
              LAMBDA at :
             IF at = None THEN s ELSE [s EXCEPT !.render_cursor_line = Some(at[1][1])])

\* ensure_rendered_cursor_visible, once the rendered cursor line is known
scrolled_to(s, ln, height) ==
    IF ln < s.scroll THEN [s EXCEPT !.scroll = ln]
    ELSE IF ln >= s.scroll + height
    THEN [s EXCEPT !.scroll = saturating_sub(ln, saturating_sub(height, 1))]
    ELSE s

ensure_rendered_cursor_visible(s, height) ==
    IF s.render_cursor_line # None THEN scrolled_to(s, s.render_cursor_line[1], height)
    ELSE With(compute_rendered_cursor_line_col(s, s.scroll), LAMBDA at :
             IF at = None THEN s
             ELSE scrolled_to([s EXCEPT !.render_cursor_line = Some(at[1][1])], at[1][1], height))

(***************************************************************************)
(* Parsing and wrapping a document.  The parser (pulldown_cmark) is not    *)
(* part of the program: a document is given as the blocks the parser       *)
(* reports, paragraphs of one line of plain words and headings, each       *)
(* written on a line of its own and followed by an empty line.             *)
(***************************************************************************)
Paragraph(text) == [kind |-> "paragraph", level |-> 0, text |-> text]
HeadingBlock(level, text) == [kind |-> "heading", level |-> level, text |-> text]

RECURSIVE markdown_of(_)
markdown_of(blocks) ==
    IF blocks = <<>> THEN <<>>
    ELSE (IF blocks[1].kind = "heading"
          THEN [i \in 1..blocks[1].level |-> "#"] \o <<" ">> ELSE <<>>)
         \o blocks[1].text \o <<NL, NL>> \o markdown_of(Tail(blocks))

\* Line::from(""): a line with one empty span
BlankLine == << <<>> >>

\* the rule under a heading of level 1 or 2: 4 to 48 chars ("=" stands for
\* the double line of level 1, "-" for the single line of level 2)
underline(level, text) ==
    [i \in 1..Min(Max(Len(text), 4), 48) |-> IF level = 1 THEN "=" ELSE "-"]

\* parse_markdown's handlers of the end of a paragraph and of a heading
parse_block(parsed, block) ==
    LET raw_lines == parsed.raw_lines
        text == trim(block.text)
    IN  IF block.kind = "paragraph"
        THEN [parsed EXCEPT !.raw_lines = raw_lines \o <<<<block.text>>, BlankLine>>]
        ELSE [raw_lines |->
                 raw_lines
                 \o (IF block.level <= 2 /\ raw_lines # <<>> THEN <<BlankLine>> ELSE <<>>)
                 \o <<<<text>>>>
                 \o (IF block.level <= 2 THEN <<<<underline(block.level, text)>>>> ELSE <<>>)
                 \o <<BlankLine>>,
              headings |->
                 Append(parsed.headings,
                        [level |-> block.level, title |-> text, raw_line |-> Len(raw_lines)])]

RECURSIVE parse_blocks(_, _)
parse_blocks(parsed, blocks) ==
    IF blocks = <<>> THEN parsed
    ELSE parse_blocks(parse_block(parsed, blocks[1]), Tail(blocks))

parse_markdown(blocks) == parse_blocks([raw_lines |-> <<>>, headings |-> <<>>], blocks)

RECURSIVE wrap_lines(_, _)
wrap_lines(raw_lines, width) ==
    IF raw_lines = <<>> THEN <<>>
    ELSE LET wrapped == wrap_line(raw_lines[1], width)
         IN  <<IF wrapped = <<>> THEN <<BlankLine>> ELSE wrapped>>
             \o wrap_lines(Tail(raw_lines), width)

RECURSIVE concat(_)
concat(seqs) == IF seqs = <<>> THEN <<>> ELSE seqs[1] \o concat(Tail(seqs))

\* the index of the first wrapped line of each raw line
raw_to_wrapped(wrapped) == [i \in 1..Len(wrapped) |-> Len(concat(SubSeq(wrapped, 1, i - 1)))]

wrap_document(parsed, width0, query, case_sensitive) ==
    With(wrap_lines(parsed.raw_lines, Max(width0, 1)), LAMBDA wrapped :
    With(concat(wrapped), LAMBDA lines :
    With([i \in 1..Len(lines) |-> line_to_plain(lines[i])], LAMBDA plain_lines :
    With(raw_to_wrapped(wrapped), LAMBDA first :
        [ plain_lines |-> plain_lines,
          headings |->
              [h \in 1..Len(parsed.headings) |->
                  [level |-> parsed.headings[h].level,
                   title |-> parsed.headings[h].title,
                   line |-> IF parsed.headings[h].raw_line < Len(first)
                            THEN first[parsed.headings[h].raw_line + 1] ELSE 0]],
          matches |->
              IF query = None \/ query = Some(<<>>) THEN <<>>
              ELSE find_matches(plain_lines, query[1], case_sensitive) ]))))

\* config.search_case_sensitive, as Config::default leaves it (config.wrap
\* is left true)
search_case_sensitive == FALSE

\* u16::MAX, the width of the rendering when config.wrap is off
u16_MAX == 65535

refresh_render(s, width) ==
    With(wrap_document(s.parsed, IF s.wrap THEN width ELSE u16_MAX,
                       IF s.search_query = <<>> THEN None ELSE Some(s.search_query),
                       search_case_sensitive), LAMBDA rendered :
        [s EXCEPT !.rendered = rendered,
                  !.render_cursor_line = None,
                  !.current_match = IF rendered.matches # <<>> /\ @ >= Len(rendered.matches)
                                    THEN 0 ELSE @])

ensure_rendered(s, width) ==
    IF width = 0 \/ s.last_width = width THEN s
    ELSE refresh_render([s EXCEPT !.last_width = width], width)

clamp_scroll(s, height) ==
    LET max_scroll == saturating_sub(Len(s.rendered.plain_lines), height)
    IN  IF s.scroll > max_scroll THEN [s EXCEPT !.scroll = max_scroll] ELSE s

\* current_heading_index
RECURSIVE heading_index_from(_, _, _, _)
heading_index_from(scroll, headings, i, idx) ==
    IF i >= Len(headings) THEN idx
    ELSE IF headings[i + 1].line <= scroll THEN heading_index_from(scroll, headings, i + 1, i)
    ELSE idx

current_heading_index(scroll, headings) == heading_index_from(scroll, headings, 0, 0)

\* the line jump_heading starts from
heading_anchor(s) ==
    IF s.render_cursor_line # None THEN s.render_cursor_line[1]
    ELSE With(compute_rendered_cursor_line_col(s, s.scroll), LAMBDA at :
             IF at # None THEN at[1][1] ELSE s.scroll)

\* the index of the heading jump_heading goes to from `current`
next_heading(current, delta, len) ==
    IF delta < 0 THEN saturating_sub(current, 1)
    ELSE IF delta > 0 THEN Min(current + 1, len - 1)
    ELSE current

jump_heading(s, delta) ==
    IF s.rendered.headings = <<>> THEN s
    ELSE set_rendered_cursor_line(s,
            s.rendered.headings[
                next_heading(current_heading_index(heading_anchor(s), s.rendered.headings),
                             delta, Len(s.rendered.headings)) + 1].line)

scroll_to_match(s) ==
    IF s.current_match < Len(s.rendered.matches)
    THEN set_rendered_cursor_line(s, s.rendered.matches[s.current_match + 1].line)
    ELSE s

\* jump_match, had it stopped at the first match instead of wrapping
next_match_stops(current_match, delta, len) ==
    IF current_match + delta < 0 THEN 0 ELSE (current_match + delta) % len

\* the index jump_match goes to (lines 494-500)
next_match(current_match, delta, len) ==
    IF current_match + delta < 0 THEN len - 1 ELSE (current_match + delta) % len

jump_match(s, delta) ==
    IF s.rendered.matches = <<>> THEN s
    ELSE scroll_to_match(
            [s EXCEPT !.current_match = next_match(@, delta, Len(s.rendered.matches))])

(***************************************************************************)
(* SpecPreview: sessions that move about the rendered document.  view is   *)
(* the App of such a session (the fields the preview reads and writes).    *)
(* The keys are those of Edit mode that no operator, count or register     *)
(* precedes: j and k move the edit cursor, n and N go to a match, [ and ]  *)
(* to a heading, B opens and closes the preview pane; a search is the      *)
(* key /, the text of the query, and Enter.                                *)
(***************************************************************************)
\* App::new, for a document the parser reports as `blocks`
new_preview(blocks) ==
    [ rope |-> markdown_of(blocks),
      cursor_char |-> 0,
      preferred_col |-> None,
      parsed |-> parse_markdown(blocks),
      rendered |-> wrap_document(parse_markdown(blocks), 80, None, search_case_sensitive),
      search_query |-> <<>>,
      current_match |-> 0,
      render_cursor_line |-> None,
      scroll |-> 0,
      show_preview |-> FALSE,
      wrap |-> TRUE,
      last_width |-> 0 ]

\* layout.preview_width, else layout.editor_width
render_width(s) == IF s.show_preview THEN PreviewWidth ELSE FullWidth

\* the end of the handlers of Edit mode, and of the top of the loop
shown(s, height) ==
    IF s.show_preview
    THEN ensure_rendered_cursor_visible(update_render_cursor_line(s), height)
    ELSE s

\* what the top of the loop does to the preview before it draws (lines
\* 51-61)
drawn_preview(s) ==
    shown(clamp_scroll(ensure_rendered(s, render_width(s)), EditorHeight), EditorHeight)

\* handle_normal_mode, for the keys of the preview: the key's arm and what
\* follows the match (lines 857-865)
handle_preview_key(s, key, content_height) ==
    shown(CASE key = Ch("j") -> move_cursor_down(s)
            [] key = Ch("k") -> move_cursor_up(s)
            [] key = Ch("B") -> [s EXCEPT !.show_preview = ~@]
            [] key \in {Ch("["), Ch("]")} -> jump_heading(s, IF key = Ch("[") THEN -1 ELSE 1)
            [] key \in {Ch("n"), Ch("N")} -> jump_match(s, IF key = Ch("n") THEN 1 ELSE -1)
            [] OTHER -> s,
          content_height)

\* handle_search_input, for Enter with `input` typed
search_enter(s, input) ==
    With(refresh_render([s EXCEPT !.search_query = trim(input)], Max(s.last_width, 1)),
         LAMBDA s1 :
        IF s1.rendered.matches # <<>>
        THEN scroll_to_match([s1 EXCEPT !.current_match = 0])
        ELSE s1)

PreviewDocs ==
    { <<>>,
      <<Paragraph(<<"a", "a", "a", "a", " ", "b">>)>>,
      <<Paragraph(<<"a", "b">>), Paragraph(<<"b">>), Paragraph(<<"a", "b">>)>>,
      <<Paragraph(<<"a">>), HeadingBlock(1, <<"b">>), HeadingBlock(2, <<"a", "b">>)>>,
      <<HeadingBlock(3, <<"a", "b">>), Paragraph(<<"b", " ", "a">>), HeadingBlock(3, <<"b">>)>> }

PreviewKeys == {Ch("j"), Ch("k"), Ch("B"), Ch("["), Ch("]"), Ch("n"), Ch("N")}

PreviewQueries == { <<"b">>, <<"A">>, <<"c">>, <<"=">> }

InitPreview ==
    /\ InitLoop({<<>>}, "poll", {<<>>})
    /\ view \in {new_preview(blocks) : blocks \in PreviewDocs}

\* g.jump: the edit cursor and the buffer as the key was handled (history)
PreviewStep(d, handled, key) ==
    /\ nkeys < MaxPreviewKeys
    /\ view' = handled
    /\ nkeys' = nkeys + 1
    /\ ev' = Event("key", key, FALSE)
    /\ g' = [g EXCEPT !.jump = Some([cursor_char |-> d.cursor_char, rope |-> d.rope])]
    /\ UNCHANGED <<app, file, fsq, now, pc>>

PreviewKey(key) ==
    \E d \in {drawn_preview(view)} :
        \E handled \in {handle_preview_key(d, key, EditorHeight)} : PreviewStep(d, handled, key)

PreviewSearch(query) ==
    \E d \in {drawn_preview(view)} :
        \E handled \in {search_enter(d, query)} : PreviewStep(d, handled, Sp("Enter"))

NextPreview ==
    \/ \E key \in PreviewKeys : PreviewKey(key)
    \/ \E query \in PreviewQueries : PreviewSearch(query)

SpecPreview == InitPreview /\ [][NextPreview]_vars

\* C23: with m >= 1 matches, n sets current_match to (current_match + 1)
\* mod m and N sets it to (current_match - 1) mod m, and the rendered cursor
\* line becomes the line of that match; with no matches both keys change
\* nothing; and current_match < m whenever m >= 1.
MatchKeysCycleThroughMatches ==
    /\ [][ \A key \in {Ch("n"), Ch("N")} :
             PreviewKey(key) =>
                LET d == drawn_preview(view)
                    m == Len(d.rendered.matches)
                IN  IF m >= 1
                    THEN /\ view'.current_match
                              = (d.current_match + (IF key = Ch("n") THEN 1 ELSE m - 1)) % m
                         /\ view'.render_cursor_line
                              = Some(d.rendered.matches[view'.current_match + 1].line)
                    ELSE view' = d ]_vars
    /\ [](Len(view.rendered.matches) >= 1 => view.current_match < Len(view.rendered.matches))

\* What holds of C23: the index of the current match, and the rendered
\* cursor line while the preview pane is closed.
MatchKeysCycleWithoutPreview ==
    /\ [][ \A key \in {Ch("n"), Ch("N")} :
             PreviewKey(key) =>
                LET d == drawn_preview(view)
                    m == Len(d.rendered.matches)
                IN  IF m >= 1
                    THEN /\ view'.current_match
                              = (d.current_match + (IF key = Ch("n") THEN 1 ELSE m - 1)) % m
                         /\ ~d.show_preview
                            => view'.render_cursor_line
                                 = Some(d.rendered.matches[view'.current_match + 1].line)
                    ELSE view' = d ]_vars
    /\ [](Len(view.rendered.matches) >= 1 => view.current_match < Len(view.rendered.matches))

\* the heading a jump is to go to, by C24: from the current heading (the
\* last one whose rendered line is at or above the anchor) the next or the
\* previous one, kept within the headings; the first heading when the
\* anchor is above them all (headings are numbered from 1 here)
heading_wanted(headings, anchor, delta) ==
    LET above == {i \in 1..Len(headings) : headings[i].line <= anchor}
    IN  IF above = {} THEN 1
        ELSE IF delta > 0 THEN Min(MaxOf(above) + 1, Len(headings))
        ELSE Max(MaxOf(above) - 1, 1)

\* C24: jump_heading(+1) targets the heading that follows the current
\* heading (the last heading whose rendered line <= anchor), and
\* jump_heading(-1) the one that precedes it, clamped to the first and the
\* last heading; when the anchor lies above every heading, jump_heading(+1)
\* targets the first heading; with no headings it does nothing.
HeadingKeysTargetNeighbours ==
    [][ \A key \in {Ch("["), Ch("]")} :
          PreviewKey(key) =>
             LET d == drawn_preview(view)
                 hs == d.rendered.headings
                 delta == IF key = Ch("]") THEN 1 ELSE -1
                 last == Len(d.rendered.plain_lines) - 1
             IN  IF hs = <<>> THEN jump_heading(d, delta) = d
                 ELSE jump_heading(d, delta).render_cursor_line
                        = Some(Min(hs[heading_wanted(hs, heading_anchor(d), delta)].line, last))
      ]_vars

\* What holds of C24: the jumps from an anchor at or below the first
\* heading, and the jump back from above.
HeadingKeysTargetNeighboursBelow ==
    [][ \A key \in {Ch("["), Ch("]")} :
          PreviewKey(key) =>
             LET d == drawn_preview(view)
                 hs == d.rendered.headings
                 delta == IF key = Ch("]") THEN 1 ELSE -1
                 last == Len(d.rendered.plain_lines) - 1
             IN  IF hs = <<>> THEN jump_heading(d, delta) = d
                 ELSE (hs[1].line <= heading_anchor(d) \/ delta < 0 \/ Len(hs) = 1)
                      => jump_heading(d, delta).render_cursor_line
                           = Some(Min(hs[heading_wanted(hs, heading_anchor(d), delta)].line, last))
      ]_vars

\* the rendered line a jump key goes to from the App as drawn (None
\* without a heading or a match to go to)
jump_target(d, key) ==
    IF key \in {Ch("["), Ch("]")}
    THEN IF d.rendered.headings = <<>> THEN None
         ELSE Some(Min(d.rendered.headings[
                           next_heading(current_heading_index(heading_anchor(d),
                                                              d.rendered.headings),
                                        IF key = Ch("[") THEN -1 ELSE 1,
                                        Len(d.rendered.headings)) + 1].line,
                       Len(d.rendered.plain_lines) - 1))
    ELSE IF d.rendered.matches = <<>> THEN None
         ELSE Some(Min(d.rendered.matches[
                           next_match(d.current_match, IF key = Ch("n") THEN 1 ELSE -1,
                                      Len(d.rendered.matches)) + 1].line,
                       Len(d.rendered.plain_lines) - 1))

\* the inverse mapping finds no source line for rendered line `target`
no_source_line(d, target) ==
    find_source_line_for_text(d, d.rendered.plain_lines[target + 1],
                              char_to_line(d.rope, d.cursor_char)) = None

\* C32: when the inverse mapping finds no source line for the rendered line
\* of a heading jump or a match jump, the jump is handled and leaves the
\* edit cursor and the buffer as they were
JumpWithoutSourceLineKeepsCursor ==
    [][ \A key \in {Ch("["), Ch("]"), Ch("n"), Ch("N")} :
          PreviewKey(key) =>
             With(drawn_preview(view), LAMBDA d :
             With(jump_target(d, key), LAMBDA target :
                 ( target # None /\ no_source_line(d, target[1]) )
                 => /\ view'.cursor_char = d.cursor_char
                    /\ view'.rope = d.rope
                    /\ view'.preferred_col = d.preferred_col))
      ]_vars

\* C32 happens: with the cursor below the first source line, ] has gone to
\* a heading whose rendered line is blank, and the cursor has stayed
HeadingJumpToBlankLineKeptCursor ==
    /\ ev.key = Ch("]")
    /\ ~view.show_preview
    /\ view.render_cursor_line # None
    /\ trim(view.rendered.plain_lines[view.render_cursor_line[1] + 1]) = <<>>
    /\ g.jump # None
    /\ g.jump[1].cursor_char > 0
    /\ view.cursor_char = g.jump[1].cursor_char
    /\ view.rope = g.jump[1].rope

\* n has gone to a match in the rule under a heading, which no source line
\* contains, and the cursor has stayed
MatchJumpToRuleKeptCursor ==
    /\ ev.key = Ch("n")
    /\ ~view.show_preview
    /\ view.search_query = <<"=">>
    /\ view.render_cursor_line # None
    /\ view.rendered.plain_lines[view.render_cursor_line[1] + 1] = <<"=", "=", "=", "=">>
    /\ g.jump # None
    /\ g.jump[1].cursor_char > 0
    /\ view.cursor_char = g.jump[1].cursor_char

\* C34: reload_file never replaces the buffer while the mode is Insert,
\* VisualChar, VisualLine or CommandInput, also when the reload was
\* requested in Edit mode and the mode changed before the deadline passed
NoReloadWhileEditing ==
    [][ ( /\ pc = "drain" /\ pc' = "poll"
          /\ reload_due(app, now)
          /\ app'.rope # app.rope )
        => app.mode \notin {"Insert", "VisualChar", "VisualLine", "CommandInput"} ]_vars

\* C35: a buffer that is not dirty holds the last saved or loaded content,
\* in every reachable state; so handle_key returns true (which it does only
\* on `q` with dirty == false) only when nothing is unsaved
CleanBufferIsSaved ==
    /\ ~app.dirty => app.rope = app.source /\ app.rope = file
    /\ pc = "quit" => app.rope = file

\* C35 happens: `q` has ended the loop after the buffer was changed and the
\* change undone
QuitAfterUndo ==
    /\ pc = "quit"
    /\ app.redo_stack # <<>>
    /\ app.redo_stack[1] # app.rope

\* or after the change was saved
QuitAfterSave ==
    /\ pc = "quit"
    /\ g.cmd_key = Ch("q")
    /\ app.status = Some(to_string("Saved"))
    /\ app.undo_stack # <<>>
    /\ app.undo_stack[1] # app.rope

\* `q` has been refused on unsaved changes
QuitRefusedWhileDirty ==
    /\ pc = "poll"
    /\ app.dirty /\ app.rope # file
    /\ app.status = Some(to_string("No write since last change (use :q! to discard)"))

\* C36: whenever the mode is Insert the redo stack is empty, so Ctrl-r in
\* Insert mode (the only key bound to redo) never changes the buffer
RedoEmptyInInsert ==
    [][ /\ app'.mode = "Insert" => app'.redo_stack = <<>>
        /\ ( nkeys' = nkeys + 1 /\ app.mode = "Insert" /\ ev'.key = CtrlCh("r") )
           => app'.rope = app.rope /\ app'.undo_stack = app.undo_stack ]_vars

\* C36 happens: Ctrl-r has been handled in Insert mode, entered after a
\* change of the buffer was undone (the buffer is clean again)
CtrlRInInsertAfterUndo ==
    /\ app.mode = "Insert"
    /\ ev.kind = "key" /\ ev.key = CtrlCh("r")
    /\ g.cmd_key = Ch("i")
    /\ nkeys >= 4
    /\ ~app.dirty
    /\ app.undo_stack = <<app.rope>>

\* C38: for every heading of the rendered document, plain_lines[heading.line]
\* is the wrapped line on which the heading's title begins, never a blank
\* line or a rule, whatever the heading's level and place in the document
HeadingLineHoldsTitle ==
    \A h \in 1..Len(view.rendered.headings) :
        With(view.rendered.headings[h], LAMBDA heading :
        With(view.rendered.plain_lines[heading.line + 1], LAMBDA plain :
            /\ plain # <<>>
            /\ Len(plain) <= Len(heading.title)
            /\ plain = SubSeq(heading.title, 1, Len(plain)) ))

\* C39: after every key handled in Edit, Insert or Visual mode the cursor's
\* line lies inside the editor's viewport:
\* edit_scroll <= cursor line < edit_scroll + height
CursorInViewportAfterKey ==
    [][ ( /\ nkeys' = nkeys + 1
          /\ app.mode \in {"Edit", "Insert", "VisualChar", "VisualLine"}
          /\ app'.cursor_char <= len_chars(app'.rope) )
        => /\ app'.edit_scroll <= cursor_line(app')
           /\ cursor_line(app') < app'.edit_scroll + EditorHeight ]_vars

\* C40: a pending reload whose last request is 150 ms old does not outlast
\* the next handle_pending_reload (only a later request puts it off); with
\* the loop going on and time advancing, a pending reload is followed by a
\* run of reload_file that clears pending and deadline; and reload_file
\* runs only for a pending reload, so once for the requests it answers
PendingReloadEventuallyRuns ==
    /\ []( ( pc = "poll" /\ app.reload.pending )
           => /\ g.last_req # None
              /\ app.reload.deadline = Some(unwrap_or(g.last_req, 0) + DebounceMs)
              /\ now < unwrap_or(g.last_req, 0) + DebounceMs )
    /\ [][ ( pc = "drain" /\ pc' = "poll" /\ ~app.reload.pending )
           => app'.rope = app.rope /\ app'.status = app.status ]_vars
    /\ ( app.reload.pending
         ~> ( /\ ev.kind = "reload" /\ ev.fired
              /\ ~app.reload.pending
              /\ app.reload.deadline = None ) )

\* C40 happens: a reload requested twice, the second time 100 ms after the
\* first, has run 150 ms after the second request
PostponedReloadHasRun ==
    /\ ev.kind = "reload" /\ ev.fired
    /\ pc = "poll"
    /\ g.answered = 2
    /\ g.last_req = Some(100)
    /\ now = 250
    /\ ~app.reload.pending /\ app.reload.deadline = None

(***************************************************************************)
(* SpecRender: calls of the renderer's functions.  A behaviour is one      *)
(* call: view holds the function, its arguments, and its result once the   *)
(* call has returned.                                                      *)
(***************************************************************************)
Strings(chars, n) == UNION {[1..k -> chars] : k \in 0..n}

Call(fn, args) == [fn |-> fn, args |-> args, out |-> None]

FindMatchesCalls ==
    LET texts == Strings({"a", "A", "b"}, MaxLineLen) \cup {<<"c", "a", "t", "c", "a", "t">>}
        docs == {<<t>> : t \in texts} \cup {<<t, <<"a", "a">>>> : t \in texts}
        queries == { <<"a">>, <<"A">>, <<"a", "a">>, <<"a", "b">>, <<"b", "A">>,
                     <<"c", "a", "t">>, <<"C", "A", "T">> }
    IN  { Call("find_matches", <<d, q, cs>>) : d \in docs, q \in queries, cs \in BOOLEAN }

TheQuickBrownFox ==
    << "T", "h", "e", " ", "q", "u", "i", "c", "k", " ",
       "b", "r", "o", "w", "n", " ", "f", "o", "x" >>

WrapLineCalls ==
    LET one == {<<t>> : t \in Strings({"a", " ", "W"}, MaxLineLen + 1)}
        two == {<<t, u>> : t, u \in Strings({"a", " ", "W"}, MaxLineLen - 1)}
    IN  { Call("wrap_line", <<l, w>>) : l \in one \cup two, w \in 1..MaxWidth }
        \cup { Call("wrap_line", <<<<TheQuickBrownFox>>, 10>>) }

\* lines of two spans and the merged ranges of the matches of a query in
\* them, as wrap_document gives them to apply_highlight (lines 361-375)
HighlightCalls ==
    LET spans == Strings({"a", "A", "b"}, MaxLineLen - 1)
        queries == { <<"a">>, <<"a", "b">>, <<"b", "A">>, <<"a", "a", "b">>, <<"c">> }
    IN  { Call("apply_highlight",
               <<<<t, u>>,
                 build_match_map(find_matches(<<t \o u>>, q, search_case_sensitive), 0)>>) :
            t \in spans, u \in spans, q \in queries }

\* the tables parse_markdown builds (the rows of the head section come
\* first and carry the flag), and those of the renderer's own test, where
\* a head section was seen and no row carries the flag
TableCalls ==
    LET cells == { <<<<"a">>>>, <<<<"a", "a">>, <<"a">>>>, <<<<"a">>, <<"W">>>> }
        rowcells == UNION {[1..n -> cells] : n \in 0..MaxRows}
    IN  { Call("render_table",
               <<[rows |-> [r \in 1..Len(rc) |-> [cells |-> rc[r], is_header |-> r <= h]],
                  saw_head |-> sh]>>) :
            rc \in rowcells, h \in 0..1, sh \in BOOLEAN }

\* a line of the rope replaced by another text
replace_line(rope, l, text) ==
    SubSeq(rope, 1, line_to_char(rope, l)) \o text
    \o SubSeq(rope, line_to_char(rope, l) + Len(trim_end_newline(line(rope, l))) + 1, Len(rope))

\* source lines that C29 takes for blank: an empty line, spaces, a heading
\* marker without a title, code fences, markup only
BlankSourceLines ==
    { <<>>, <<" ", " ">>, <<"#">>, <<"#", "#", " ">>,
      <<BackTick, BackTick, BackTick>>, <<BackTick, BackTick, BackTick, "a">>,
      <<"~", "~", "~">>, <<"*", "*">>, <<">", " ">> }

\* a long document: paragraphs `x`, and `abcd` at the places marked
LongDoc(marks) ==
    [i \in 1..LongDocBlocks |->
        Paragraph(IF i \in marks THEN <<"a", "b", "c", "d">> ELSE <<"x">>)]

\* the App when the cursor is mapped: a document as it was last drawn, the
\* edit cursor at the start of one of its lines (j, k), and that line as it
\* is or as an edit of Edit mode has just left it (the handlers of Edit
\* mode map the cursor before the next draw renders the text again)
MappedApp(blocks, show_preview, l, text) ==
    With(drawn_preview([new_preview(blocks) EXCEPT !.show_preview = show_preview]), LAMBDA d :
        [d EXCEPT !.cursor_char = line_to_char(d.rope, l),
                  !.rope = IF text = None THEN @ ELSE replace_line(@, l, text[1])])

\* a line of LongLineLen chars without a space: abcd, then x
LongLine == [i \in 1..LongLineLen |-> IF i <= 4 THEN <<"a", "b", "c", "d">>[i] ELSE "x"]

\* the App under a configuration without wrapping, as last drawn, with the
\* edit cursor at the start of source line l
UnwrappedApp(blocks, l) ==
    With(drawn_preview([new_preview(blocks) EXCEPT !.wrap = FALSE]), LAMBDA d :
        [d EXCEPT !.cursor_char = line_to_char(d.rope, l)])

\* a paragraph that holds the first chars of the long line, and the long
\* line as a heading two rendered lines below it
LongLineCalls ==
    { Call("compute_rendered_cursor_line_col",
           <<UnwrappedApp(<<Paragraph(SubSeq(LongLine, 1, 8)), HeadingBlock(1, LongLine)>>, 2),
             anchor>>) : anchor \in {0, 1, 3} }

MappingCalls ==
    { Call("compute_rendered_cursor_line_col", <<MappedApp(blocks, sp, l, text), anchor>>) :
        blocks \in PreviewDocs \cup {<<Paragraph(<<"a", "b", "c", "d", " ", "e", "f">>),
                                      Paragraph(<<"a", "b", "c", "d">>)>>},
        sp \in BOOLEAN, l \in {0, 2, 4},
        text \in {None, Some(<<"z">>)} \cup {Some(t) : t \in BlankSourceLines},
        anchor \in {0, 1, 2, 3, 400} }
    \cup
    { Call("compute_rendered_cursor_line_col",
           <<MappedApp(LongDoc(marks), FALSE, 2 * (LongDocBlocks - 1), text), anchor>>) :
        marks \in {{1, LongDocBlocks}, {LongDocBlocks}, {LongDocBlocks - 2, LongDocBlocks}},
        text \in {None, Some(<<"z">>), Some(<<>>)},
        anchor \in {0, 1, 2, 3, 400} }
    \cup LongLineCalls

InitRender ==
    /\ InitLoop({<<>>}, "poll", {<<>>})
    /\ view \in FindMatchesCalls \cup WrapLineCalls \cup TableCalls \cup MappingCalls
                \cup HighlightCalls

Returns(fn, result) ==
    /\ view.fn = fn
    /\ view.out = None
    /\ view' = [view EXCEPT !.out = Some(result)]
    /\ UNCHANGED <<app, file, fsq, now, pc, nkeys, ev, g>>

CallFindMatches ==
    Returns("find_matches", find_matches(view.args[1], view.args[2], view.args[3]))

CallWrapLine == Returns("wrap_line", wrap_line(view.args[1], view.args[2]))

CallRenderTable == Returns("render_table", render_table(view.args[1], <<>>))

CallComputeRenderedCursor ==
    Returns("compute_rendered_cursor_line_col",
            compute_rendered_cursor_line_col(view.args[1], view.args[2]))

CallApplyHighlight ==
    Returns("apply_highlight", apply_highlight(view.args[1], view.args[2]))

NextRender ==
    \/ CallFindMatches
    \/ CallWrapLine
    \/ CallRenderTable
    \/ CallComputeRenderedCursor
    \/ CallApplyHighlight

SpecRender == InitRender /\ [][NextRender]_vars

Returned(fn) == view.fn = fn /\ view.out # None

\* C26: for every line and non-empty query, the matches find_matches
\* returns are those of a left-to-right scan that resumes at the end of each
\* match: they are in ascending order and pairwise disjoint, each
\* [start, end) covers an occurrence of the query (both folded to ASCII
\* lower case when the search is case-insensitive), and no occurrence that
\* starts at or after the previous match's end is skipped; `cat` in
\* `catcat` gives 2 matches and `aa` in `aaa` gives 1.
FindMatchesScansLeftToRight ==
    Returned("find_matches") /\ view.args[2] # <<>> =>
        LET lines == view.args[1]
            fold(t) == IF view.args[3] THEN t ELSE to_ascii_lowercase(t)
            needle == fold(view.args[2])
            ms == view.out[1]
            \* where the scan stood before match i, and after the last match of line l
            before(i) == IF i > 1 /\ ms[i - 1].line = ms[i].line THEN ms[i - 1].end ELSE 0
            after(l) == MaxOf({ms[i].end : i \in {j \in 1..Len(ms) : ms[j].line = l}})
        IN  /\ \A i \in 1..Len(ms) :
                  /\ ms[i].line \in 0..(Len(lines) - 1)
                  /\ ms[i].end = ms[i].start + Len(needle)
                  /\ occurs_at(fold(lines[ms[i].line + 1]), needle, ms[i].start)
                  /\ before(i) <= ms[i].start
                  /\ \A at \in before(i)..(ms[i].start - 1) :
                         ~occurs_at(fold(lines[ms[i].line + 1]), needle, at)
            /\ \A i \in 1..(Len(ms) - 1) : ms[i].line <= ms[i + 1].line
            /\ \A l \in 0..(Len(lines) - 1) :
                  \A at \in after(l)..Len(lines[l + 1]) :
                      ~occurs_at(fold(lines[l + 1]), needle, at)
            /\ ( lines = <<<<"c", "a", "t", "c", "a", "t">>>> /\ needle = <<"c", "a", "t">>
                 => Len(ms) = 2 )
            /\ ( lines = <<<<"a", "a", "a">>>> /\ needle = <<"a", "a">> => Len(ms) = 1 )

\* C26's case: the case-insensitive search of `aA` for `A` in a document
\* of two lines has returned, with two matches in the first line
FindMatchesFoundTwoInALine ==
    /\ Returned("find_matches")
    /\ view.args = << <<<<"a", "A">>, <<"a", "a">>>>, <<"A">>, FALSE >>
    /\ Len(view.out[1]) = 4
    /\ view.out[1][2] = Match(0, 1, 2)

\* C27: for every line without a uniform background and every width
\* w >= 1 that no char of the line exceeds, each line wrap_line produces is
\* at most w columns wide, does not end with a space and does not start
\* with whitespace; `The quick brown fox` at width 10 gives exactly the
\* lines `The quick` and `brown fox`.
WrappedLinesFitAndAreTrimmed ==
    ( /\ Returned("wrap_line")
      /\ view.args[2] >= 1
      /\ \A c \in {"a", " ", "W"} :
            (\E i \in 1..Len(line_to_plain(view.args[1])) : line_to_plain(view.args[1])[i] = c)
            => char_width(c) <= view.args[2] )
    =>  LET out == view.out[1]
            plain(i) == line_to_plain(out[i])
        IN  /\ \A i \in 1..Len(out) :
                  /\ str_width(plain(i)) <= view.args[2]
                  /\ plain(i) = <<>> \/ plain(i)[Len(plain(i))] # " "
                  /\ plain(i) = <<>> \/ ~is_whitespace(plain(i)[1])
            /\ ( view.args = <<<<TheQuickBrownFox>>, 10>>
                 => /\ Len(out) = 2
                    /\ plain(1) = SubSeq(TheQuickBrownFox, 1, 9)
                    /\ plain(2) = SubSeq(TheQuickBrownFox, 11, 19) )

\* C27's case: a line of two words with a space after each, wrapped at
\* the width of a word and its space, has come out as the two words
WrappedTwoWords ==
    /\ Returned("wrap_line")
    /\ view.args = << <<<<"a", " ">>, <<"a", " ">>>>, 2 >>
    /\ Len(view.out[1]) = 2
    /\ line_to_plain(view.out[1][1]) = <<"a">>
    /\ line_to_plain(view.out[1][2]) = <<"a">>

\* C28: render_table emits, in this order, a top border, every header row,
\* a header separator when there are a header row and a body row, every
\* body row, and a bottom border; when a head section was seen and no row
\* carries the header flag, the first row is rendered as the header.
TableLinesInOrder ==
    Returned("render_table") /\ view.args[1].rows # <<>> =>
        LET table == view.args[1]
            rows == table.rows
            out == view.out[1]
            flagged == Cardinality({r \in 1..Len(rows) : rows[r].is_header})
            h == IF flagged = 0 /\ table.saw_head THEN 1 ELSE flagged
            sep == IF h >= 1 /\ Len(rows) - h >= 1 THEN 1 ELSE 0
            is_border(ln, joints) == ln.kind = "border" /\ ln.joints = joints
            is_row(ln, r, style) ==
                /\ ln.kind = "row" /\ ln.style = style
                /\ \A c \in 1..Len(rows[r].cells) : ln.cells[c] = rows[r].cells[c]
        IN  /\ Len(out) = Len(rows) + 2 + sep
            /\ is_border(out[1], "top")
            /\ \A r \in 1..h : is_row(out[1 + r], r, "table_header")
            /\ sep = 1 => is_border(out[2 + h], "separator")
            /\ \A r \in (h + 1)..Len(rows) : is_row(out[1 + sep + r], r, "base")
            /\ is_border(out[Len(out)], "bottom")

\* C28's case: a table of two rows whose head section was seen and whose
\* rows carry no header flag has been rendered
TableWithoutHeaderFlagRendered ==
    /\ Returned("render_table")
    /\ view.args[1].saw_head
    /\ Len(view.args[1].rows) = 2
    /\ \A r \in 1..2 : ~view.args[1].rows[r].is_header
    /\ view.out[1][3].kind = "border"

(***************************************************************************)
(* The forward cursor mapping, as a function of the App and the anchor.    *)
(***************************************************************************)

\* the last rendered line of the App of the call
last_rendered(s) == Len(s.rendered.plain_lines) - 1

\* the anchor of the call, clamped to the last rendered line
clamped_anchor == Min(view.args[2], last_rendered(view.args[1]))

\* the cursor's source line is blank once normalized
cursor_line_is_blank(s) == trim(normalize_markdown_line(cursor_line_str(s))) = <<>>

\* the candidates of the cursor's source line
cursor_candidates(s) ==
    build_match_candidates(normalize_markdown_line(cursor_line_str(s)),
                           normalize_prefix_for_col(cursor_line_str(s), cursor_col(s)))

contains(ln, text) ==
    \E k \in 0..(Len(ln) - Len(text)) : SubSeq(ln, k + 1, k + Len(text)) = text

\* for each rendered line, the length of the longest candidate it contains
matched_lengths(s, candidates) ==
    [idx \in 0..last_rendered(s) |->
        MaxOf({Len(candidates[i]) : i \in
                {i \in 1..Len(candidates) :
                    /\ candidates[i] # <<>>
                    /\ contains(s.rendered.plain_lines[idx + 1], candidates[i])}})]

\* the same for the candidates of the cursor's source line in the App of the call
cursor_matched_lengths == matched_lengths(view.args[1], cursor_candidates(view.args[1]))

\* the rendered lines that contain a candidate, and those of the window
candidate_lines(len) == {idx \in DOMAIN len : len[idx] > 0}
window_lines(len, anchor) == {idx \in candidate_lines(len) : dist(idx, anchor) <= 200}

\* idx has the minimum of dist*1000 - matched_length among the lines, and
\* is the lowest of the lines that have it
is_best_of(len, anchor, idx, lines) ==
    /\ idx \in lines
    /\ \A j \in lines :
        \/ dist(idx, anchor) * 1000 - len[idx] < dist(j, anchor) * 1000 - len[j]
        \/ /\ dist(idx, anchor) * 1000 - len[idx] = dist(j, anchor) * 1000 - len[j]
           /\ idx <= j

\* the rendered line that the call has returned
returned_line == view.out[1][1][1]

\* C29: on a source line whose normalized text is blank (an empty line, a
\* heading marker with no title, a code fence, markup only) the forward
\* mapping returns the given anchor, clamped to the last rendered line, with
\* column 0, whatever the anchor and the rendered document of one line or more
BlankLineMapsToAnchor ==
    ( /\ Returned("compute_rendered_cursor_line_col")
      /\ view.args[1].rendered.plain_lines # <<>>
      /\ \/ cursor_line_is_blank(view.args[1])
         \/ cursor_line_str(view.args[1]) \in BlankSourceLines )
    => view.out = Some(Some(<<clamped_anchor, 0>>))

\* C29 happens: the cursor is on a heading marker without a title, the anchor
\* is past the end of a rendered document of several lines, and the mapping
\* has returned the last line
BlankHeadingMappedToLastLine ==
    /\ Returned("compute_rendered_cursor_line_col")
    /\ cursor_line_str(view.args[1]) = <<"#">>
    /\ last_rendered(view.args[1]) > 0
    /\ view.args[2] > last_rendered(view.args[1])
    /\ view.out = Some(Some(<<last_rendered(view.args[1]), 0>>))

\* C30: when a rendered line within 200 lines of the anchor contains a
\* candidate, the forward mapping returns the line of that window with the
\* minimum score dist*1000 - matched_length, the lowest on ties, and never a
\* line outside the window; it searches the whole document only when the
\* window has no hit; when no line matches it returns the source line index
\* clamped to the last rendered line
NearestWindowHitWins ==
    ( /\ Returned("compute_rendered_cursor_line_col")
      /\ view.args[1].rendered.plain_lines # <<>>
      /\ ~cursor_line_is_blank(view.args[1]) )
    => /\ view.out[1] # None
       /\ With(cursor_matched_lengths, LAMBDA len :
            IF window_lines(len, clamped_anchor) # {}
            THEN is_best_of(len, clamped_anchor, returned_line, window_lines(len, clamped_anchor))
            ELSE IF candidate_lines(len) # {}
            THEN is_best_of(len, clamped_anchor, returned_line, candidate_lines(len))
            ELSE returned_line = Min(cursor_line(view.args[1]), last_rendered(view.args[1])))

\* C30 happens: a line of the window and a line outside it both contain a
\* candidate, and the mapping has returned the one of the window
WindowHitPreferredToFarHit ==
    /\ Returned("compute_rendered_cursor_line_col")
    /\ view.args[1].rendered.plain_lines # <<>>
    /\ ~cursor_line_is_blank(view.args[1])
    /\ view.out[1] # None
    /\ With(cursor_matched_lengths, LAMBDA len :
        /\ window_lines(len, clamped_anchor) # {}
        /\ candidate_lines(len) # window_lines(len, clamped_anchor)
        /\ returned_line \in window_lines(len, clamped_anchor))

\* the whole document is searched: no line of the window contains a
\* candidate, and the mapping has returned a line outside it
FarHitFoundWithoutWindowHit ==
    /\ Returned("compute_rendered_cursor_line_col")
    /\ view.args[1].rendered.plain_lines # <<>>
    /\ ~cursor_line_is_blank(view.args[1])
    /\ view.out[1] # None
    /\ With(cursor_matched_lengths, LAMBDA len :
        /\ window_lines(len, clamped_anchor) = {}
        /\ returned_line \in candidate_lines(len))

\* no line contains a candidate, and the mapping has returned the source line
NoHitFallsBackToSourceLine ==
    /\ Returned("compute_rendered_cursor_line_col")
    /\ view.args[1].rendered.plain_lines # <<>>
    /\ ~cursor_line_is_blank(view.args[1])
    /\ candidate_lines(cursor_matched_lengths) = {}
    /\ cursor_line(view.args[1]) > 0
    /\ view.out[1] # None
    /\ returned_line = Min(cursor_line(view.args[1]), last_rendered(view.args[1]))

\* C31: in the forward mapping, of two rendered lines that each contain a
\* candidate the one strictly nearer to the anchor is chosen whatever the
\* matched lengths: no line that contains a candidate is nearer to the
\* anchor than the line returned
NearerHitAlwaysWins ==
    ( /\ Returned("compute_rendered_cursor_line_col")
      /\ view.args[1].rendered.plain_lines # <<>>
      /\ ~cursor_line_is_blank(view.args[1]) )
    => \A j \in candidate_lines(cursor_matched_lengths) :
           dist(returned_line, clamped_anchor) <= dist(j, clamped_anchor)

\* the chars of a text that are not whitespace, in order
non_whitespace(text) == SelectSeq(text, LAMBDA c : ~is_whitespace(c))

\* the plain texts of wrapped lines, one after the other
RECURSIVE plain_of_lines(_)
plain_of_lines(lines) ==
    IF lines = <<>> THEN <<>> ELSE line_to_plain(lines[1]) \o plain_of_lines(Tail(lines))

\* C33: wrap_line neither drops, duplicates nor reorders visible text: for
\* every line and every width of 1 or more, the chars of the wrapped lines
\* that are not whitespace, in order, are those of the line; and search
\* highlighting, which splits the spans of a wrapped line, leaves the
\* concatenation of its span texts as it was
WrapAndHighlightKeepText ==
    /\ ( Returned("wrap_line") /\ view.args[2] >= 1 )
       => non_whitespace(plain_of_lines(view.out[1]))
            = non_whitespace(line_to_plain(view.args[1]))
    /\ Returned("apply_highlight")
       => line_to_plain(view.out[1]) = line_to_plain(view.args[1])

\* C33 happens: a line of two spans with a match across them and text after
\* it has been highlighted, and has come out in four spans
HighlightAcrossSpans ==
    /\ Returned("apply_highlight")
    /\ view.args = << << <<"a", "a">>, <<"b", "a">> >>, << [start |-> 1, end |-> 3] >> >>
    /\ view.out[1] = << <<"a">>, <<"a">>, <<"b">>, <<"a">> >>

\* a word wider than the line has been cut, and a space dropped where the
\* line was wrapped
WrappedWideWordAndSpace ==
    /\ Returned("wrap_line")
    /\ view.args = << << <<"W", "a">>, <<" ", "a">> >>, 2 >>
    /\ Len(view.out[1]) = 3
    /\ plain_of_lines(view.out[1]) = <<"W", "a", "a">>

(***************************************************************************)
(* SpecTheme: the editor and the theme picker.  The session starts under   *)
(* any of the themes (run_app, lines 32-35, configures a theme of the      *)
(* list), edits, opens the picker with t, moves in it and leaves it.       *)
(*   g.picker  the theme, buffer, cursor and dirty flag when the picker    *)
(*             was last entered, whether a move has previewed another      *)
(*             theme since, and the key that has left the picker           *)
(***************************************************************************)
ThemeFiles == { <<>>, <<"a", "a", NL>> }

ThemeKeys ==
    { Ch("t"), Ch("x"), Ch("l"),
      Sp("Up"), Sp("Down"), Sp("PageUp"), Sp("PageDown"), Sp("Esc"), Sp("Enter") }

InitTheme ==
    /\ InitLoopWith(ThemeFiles, "poll", {<<>>}, {theme_names[i] : i \in 1..Len(theme_names)})
    /\ view = None

PickerGhost(key) ==
    IF app.mode # "ThemePicker" /\ app'.mode = "ThemePicker"
    THEN [g EXCEPT !.picker = Some([ theme |-> app.theme, rope |-> app.rope,
                                     cursor_char |-> app.cursor_char, dirty |-> app.dirty,
                                     previewed |-> FALSE, left |-> "" ])]
    ELSE IF app.mode = "ThemePicker" /\ app'.mode # "ThemePicker"
    THEN [g EXCEPT !.picker[1].left = key.code]
    ELSE IF app.mode = "ThemePicker" /\ app'.theme # app.theme
    THEN [g EXCEPT !.picker[1].previewed = TRUE]
    ELSE g

ThemeKey(key) == KeyStepWithin(key, TRUE, "poll", MaxThemeKeys) /\ g' = PickerGhost(key)

NextTheme == \E key \in ThemeKeys : ThemeKey(key)

SpecTheme == InitTheme /\ [][NextTheme]_vars

\* C25: once t has opened the theme picker, and whatever Up, Down, PageUp
\* and PageDown have previewed since, Esc configures again the theme of
\* before the picker and returns to Edit mode, Enter configures the theme
\* selected in the list and returns to Edit mode, and no key handled in the
\* picker changes the buffer, the cursor or the dirty flag
ThemePickerRestoresOrChooses ==
    [][ ( app.mode = "ThemePicker" /\ nkeys' = nkeys + 1 )
        => /\ app'.rope = g.picker[1].rope
           /\ app'.cursor_char = g.picker[1].cursor_char
           /\ app'.dirty = g.picker[1].dirty
           /\ ev'.key.code = "Esc"
                => app'.theme = g.picker[1].theme /\ app'.mode = "Edit"
           /\ ev'.key.code = "Enter"
                => /\ app'.theme = theme_names[app.theme_selected + 1]
                   /\ app'.mode = "Edit"
           /\ ev'.key.code \in {"Up", "Down", "PageUp", "PageDown"}
                => /\ app'.theme = theme_names[app'.theme_selected + 1]
                   /\ app'.mode = "ThemePicker" ]_vars

\* C25 happens: the picker was opened on an edited buffer, a move has
\* previewed another theme, and Esc has left the picker under the theme of
\* before it
ThemeRestoredAfterPreview ==
    /\ ev.key.code = "Esc"
    /\ app.mode = "Edit"
    /\ g.picker # None
    /\ g.picker[1].left = "Esc"
    /\ g.picker[1].previewed
    /\ g.picker[1].dirty
    /\ app.dirty
    /\ app.theme = g.picker[1].theme
    /\ app.theme_before_picker = None

\* Enter has left the picker under a theme that a move had selected
ThemeChosenAfterPreview ==
    /\ ev.key.code = "Enter"
    /\ app.mode = "Edit"
    /\ g.picker # None
    /\ g.picker[1].left = "Enter"
    /\ g.picker[1].previewed
    /\ app.theme # g.picker[1].theme
    /\ app.config_file = app.theme
    /\ app.status = Some(format("Theme: ", <<app.theme>>))

\* C37: at the start of every iteration of the loop, after
\* sync_render_from_rope, the document parsed and rendered is that of the
\* buffer's content; also after a theme was previewed, chosen or given up
\* in the picker while the buffer has unsaved edits
RenderedIsBufferAfterSync ==
    pc = "poll" => drawn(app).parsed = drawn(app).rope

=============================================================================
